---- MODULE Spec2Model ----
(***************************************************************************)
(* Namespace-entry engine of yawl (src/src/nsenter.cpp, do_nsenter and its *)
(* helpers), called from main() in src/src/yawl.cpp when enter=PID is set. *)
(*                                                                         *)
(* One process walks do_nsenter from option parsing to execvp.  Every      *)
(* system call result that the kernel decides is a nondeterministic choice *)
(* at the call.  Bit masks of CLONE_NEW* flags are integers; every flag is *)
(* a single bit, so "mask & flag" is a division test and "|" of a flag     *)
(* that is not yet set is an addition.                                     *)
(***************************************************************************)
EXTENDS Integers, Sequences, FiniteSets, TLC

(* ---------------------------------------------------------------------- *)
(* Bounds of the exploration                                               *)
(* ---------------------------------------------------------------------- *)

\* number of command line options getopt_long hands to the switch
MaxOpts == 2
\* number of setns(2) calls the kernel refuses in one run
MaxSetnsFail == 2
\* job-control stops of the relayed child in one run
MaxStops == 2
\* retryable errors (EINTR, EAGAIN) write(2) returns to one write_all
MaxWriteRetries == 1
\* bits of int and unsigned int in cap_last_by_bsearch (32 in the build)
IntWidth == 8

(* ---------------------------------------------------------------------- *)
(* Program constants                                                       *)
(* ---------------------------------------------------------------------- *)

CLONE_NEWTIME == 128
CLONE_NEWNS == 131072
CLONE_NEWCGROUP == 33554432
CLONE_NEWUTS == 67108864
CLONE_NEWIPC == 134217728
CLONE_NEWUSER == 268435456
CLONE_NEWPID == 536870912
CLONE_NEWNET == 1073741824

EXIT_SUCCESS == 0
EXIT_FAILURE == 1
\* main() returns 1 when do_nsenter returns
MainReturn == 1

\* sizeof(effective) * 8 in cap_permitted_to_ambient
CapBits == 64

NULL == 0
\* signal numbers used by continue_as_child
SIGSTOP == 19
SIGCONT == 18

(* ---------------------------------------------------------------------- *)
(* Inputs: pids, uids, the option menu                                     *)
(* ---------------------------------------------------------------------- *)

\* enter=PID values handed to do_nsenter (main calls it only when nonzero)
EnterPids == {1, 5}
\* pid given with -t
TargetPids == {7}
\* descriptor number given with -N
SockFds == {9}
\* explicit -S/-G values
ExplicitIds == {1000}
\* the strings given with -S/-G, a sequence of bytes each: 0..9 is the digit,
\* 10 any byte that is not a digit.  "1000", "0", "1x"
IdArgs == { << 1, 0, 0, 0 >>, << 0 >>, << 1, 10 >> }
\* owner of /proc/<target> as fstat reports it
OwnerIds == {0, 1000}

\* namespace toggles that appear on the command line without a path
ToggleKinds == {CLONE_NEWUSER, CLONE_NEWNS, CLONE_NEWNET, CLONE_NEWPID, CLONE_NEWUTS}
\* namespace toggles that appear with an explicit =<file>
PathKinds == {CLONE_NEWUSER, CLONE_NEWNET}
\* namespaces /proc/self/ns lacks on the explored kernels (built without
\* IPC, cgroup and time namespaces): the stat of these paths gives ENOENT
MayBeMissing == {CLONE_NEWIPC, CLONE_NEWCGROUP, CLONE_NEWTIME}

(* ---------------------------------------------------------------------- *)
(* Bit mask helpers                                                        *)
(* ---------------------------------------------------------------------- *)

\* (mask & flag) != 0 for a single-bit flag
HasBit(mask, flag) == flag # 0 /\ (mask \div flag) % 2 = 1

\* mask | flag
OrBit(mask, flag) == IF HasBit(mask, flag) THEN mask ELSE mask + flag

\* mask & ~flag
ClearBit(mask, flag) == IF HasBit(mask, flag) THEN mask - flag ELSE mask

(* ---------------------------------------------------------------------- *)
(* namespace_files[]                                                       *)
(* ---------------------------------------------------------------------- *)

NsEntry(t, nm) == [nstype |-> t, name |-> nm, fd |-> -1, enabled |-> FALSE]

\* variant: the user entry is the last one before the sentinel
namespace_files_user_last ==
    << NsEntry(CLONE_NEWCGROUP, "ns/cgroup"),
       NsEntry(CLONE_NEWIPC, "ns/ipc"),
       NsEntry(CLONE_NEWUTS, "ns/uts"),
       NsEntry(CLONE_NEWNET, "ns/net"),
       NsEntry(CLONE_NEWPID, "ns/pid"),
       NsEntry(CLONE_NEWNS, "ns/mnt"),
       NsEntry(CLONE_NEWTIME, "ns/time"),
       NsEntry(CLONE_NEWUSER, "ns/user"),
       NsEntry(0, "") >>

namespace_files_init ==
    << NsEntry(CLONE_NEWUSER, "ns/user"),
       NsEntry(CLONE_NEWCGROUP, "ns/cgroup"),
       NsEntry(CLONE_NEWIPC, "ns/ipc"),
       NsEntry(CLONE_NEWUTS, "ns/uts"),
       NsEntry(CLONE_NEWNET, "ns/net"),
       NsEntry(CLONE_NEWPID, "ns/pid"),
       NsEntry(CLONE_NEWNS, "ns/mnt"),
       NsEntry(CLONE_NEWTIME, "ns/time"),
       NsEntry(0, "") >>

\* index of the terminating {.nstype = 0} element
Sentinel == Len(namespace_files_init)

AllKinds == {namespace_files_init[i].nstype : i \in 1..(Sentinel - 1)}

\* variant: the enabled argument is not consulted
RECURSIVE ScanNsfile_any_entry(_, _, _, _)
ScanNsfile_any_entry(tab, n, namespaces, enabled) ==
    IF tab[n].nstype = 0 THEN NULL
    ELSE IF namespaces # 0 /\ ~HasBit(namespaces, tab[n].nstype)
         THEN ScanNsfile_any_entry(tab, n + 1, namespaces, enabled)
    ELSE n

\* __next_nsfile: n = NULL (0) or an index into the table; the result is an
\* index or NULL.  tab is the table as it is at the call.
RECURSIVE ScanNsfile(_, _, _, _)
ScanNsfile(tab, n, namespaces, enabled) ==
    IF tab[n].nstype = 0 THEN NULL
    ELSE IF namespaces # 0 /\ ~HasBit(namespaces, tab[n].nstype)
         THEN ScanNsfile(tab, n + 1, namespaces, enabled)
    ELSE IF enabled /\ ~tab[n].enabled
         THEN ScanNsfile(tab, n + 1, namespaces, enabled)
    ELSE n

next_nsfile_impl(tab, n, namespaces, enabled) ==
    ScanNsfile(tab,
               IF n = NULL THEN 1 ELSE IF tab[n].nstype # 0 THEN n + 1 ELSE n,
               namespaces, enabled)

next_nsfile(tab, n, ns) == next_nsfile_impl(tab, n, ns, FALSE)
next_enabled_nsfile(tab, n, ns) == next_nsfile_impl(tab, n, ns, TRUE)
get_nsfile(tab, ns) == next_nsfile_impl(tab, NULL, ns, FALSE)
get_enabled_nsfile(tab, ns) == next_nsfile_impl(tab, NULL, ns, TRUE)

\* the whole sequence an iteration "while ((n = next...(n, ns)))" visits
RECURSIVE IterFrom(_, _, _, _)
IterFrom(tab, n, namespaces, enabled) ==
    LET m == next_nsfile_impl(tab, n, namespaces, enabled)
    IN  IF m = NULL THEN << >> ELSE << m >> \o IterFrom(tab, m, namespaces, enabled)

Iterate(tab, namespaces, enabled) == IterFrom(tab, NULL, namespaces, enabled)

RECURSIVE MaskOf(_, _)
MaskOf(tab, idxs) ==
    IF idxs = << >> THEN 0
    ELSE OrBit(MaskOf(tab, Tail(idxs)), tab[Head(idxs)].nstype)

RECURSIVE FilterSeq(_, _, _)
FilterSeq(tab, idxs, nofd) ==
    IF idxs = << >> THEN << >>
    ELSE IF nofd = (tab[Head(idxs)].fd < 0)
         THEN << Head(idxs) >> \o FilterSeq(tab, Tail(idxs), nofd)
         ELSE FilterSeq(tab, Tail(idxs), nofd)

\* get_namespaces: mask of all enabled namespaces
get_namespaces(tab) == MaskOf(tab, Iterate(tab, 0, TRUE))

\* get_namespaces_without_fd: mask of the enabled namespaces with fd < 0
get_namespaces_without_fd(tab) ==
    MaskOf(tab, FilterSeq(tab, Iterate(tab, 0, TRUE), TRUE))

(* ---------------------------------------------------------------------- *)
(* Descriptor table of the process                                         *)
(* ---------------------------------------------------------------------- *)

\* what an open descriptor refers to
Obj(k, r, p) == [kind |-> k, ref |-> r, pid |-> p]

Stdio(n) == Obj("stdio", "std", n)

\* open(2) and the fd-returning ioctls hand out the lowest free number
LowestFree(tab) ==
    CHOOSE n \in 0..Cardinality(DOMAIN tab) :
        n \notin DOMAIN tab /\ \A m \in 0..(n - 1) : m \in DOMAIN tab

FdOpen(tab, obj) ==
    LET n == LowestFree(tab)
    IN  [x \in (DOMAIN tab) \cup {n} |-> IF x = n THEN obj ELSE tab[x]]

\* close(2); closing a number that is not open fails with EBADF and changes nothing
FdClose(tab, n) == [x \in (DOMAIN tab) \ {n} |-> tab[x]]

\* the namespace ioctl(fd, NS_GET_USERNS) answers with: the user namespace
\* that owns the namespace fd refers to (for a user namespace, its parent)
OwnerOf(obj) == Obj("userns_of_" \o obj.kind, obj.ref, obj.pid)

\* open_target_fd when open(2) succeeds: *fd is closed first if it is >= 0
open_target_fd(tab, fd, obj) ==
    LET closed == IF fd >= 0 THEN FdClose(tab, fd) ELSE tab
    IN  [tab |-> FdOpen(closed, obj), fd |-> LowestFree(closed)]

\* open_target_fd when open(2) fails: *fd = -1, then err()
open_target_fd_failed(tab, fd) == IF fd >= 0 THEN FdClose(tab, fd) ELSE tab

\* variant: the pid argument is dropped and the caller's own /proc entry is named
TargetObj_own_proc(type, path, pid) ==
    IF path # "" THEN Obj("path", path, 0) ELSE Obj("self", type, 0)

\* the file open_target_fd names: the explicit path, else /proc/<pid>/<type>
TargetObj(type, path, pid) ==
    IF path # "" THEN Obj("path", path, 0) ELSE Obj("proc", type, pid)

(* ---------------------------------------------------------------------- *)
(* State                                                                   *)
(* ---------------------------------------------------------------------- *)

VARIABLES
    pc,                    \* position in main()/do_nsenter
    status,                \* exit status of the process, -1 while it runs
    pid_to_enter,          \* argument of do_nsenter
    namespace_files,       \* the static table
    namespace_target_pid,  \* static pid_t
    glob,                  \* root_fd, wd_fd, env_fd, uid_gid_fd, cgroup_procs_fd
    loc,                   \* locals of do_nsenter
    fdtab,                 \* descriptor table of the process
    proc,                  \* kernel state of the process
    relay,                 \* the parent left behind by continue_as_child
    hist                   \* what has happened so far (observation only)

vars == << pc, status, pid_to_enter, namespace_files, namespace_target_pid,
           glob, loc, fdtab, proc, relay, hist >>

SelfNs(nstype) == Obj("self", "ns", nstype)

\* write_all's parameters and errno: buf, the offset of the buf pointer into
\* it, count, errno after the last write(2), retryable errors so far
wr_init == [buf |-> << >>, off |-> 0, count |-> 0, errno |-> "", tries |-> 0]

glob_init ==
    [root_fd |-> -1, wd_fd |-> -1, env_fd |-> -1, uid_gid_fd |-> -1,
     cgroup_procs_fd |-> -1]

\* cap_last_by_bsearch outside a call: its locals, and the loop turns made
bsearch_init == [cap |-> 0, cap0 |-> 0, cap1 |-> 0, turns |-> 0]

loc_init ==
    [bsearch |-> bsearch_init, namespaces |-> 0, setgroups_nerrs |-> 0, preserve_cred |-> 0,
     do_rd |-> FALSE, do_wd |-> FALSE, do_uid |-> FALSE, force_uid |-> FALSE,
     do_gid |-> FALSE, force_gid |-> FALSE, do_env |-> FALSE, do_all |-> FALSE,
     do_join_cgroup |-> FALSE, do_user_parent |-> FALSE, do_fork |-> -1,
     wdns |-> "", uid |-> 0, gid |-> 0, keepcaps |-> 0, sock_fd |-> -1,
     pid_fd |-> -1, excl_st |-> "", wr |-> wr_init,
     \* enter_namespaces: 0 outside a call, else the pass; its parameters; its cursor
     pass |-> 0, arg_namespaces |-> 0, ignore_errors |-> FALSE, n |-> NULL]

proc_init ==
    [ns |-> [k \in AllKinds |-> SelfNs(k)],
     pid_for_children |-> SelfNs(CLONE_NEWPID),
     forked |-> FALSE,
     groups_dropped |-> FALSE,
     cwd |-> Obj("dir", "cwd", 0), root |-> Obj("dir", "/", 0),
     \* the environment: whether the variables the caller started with are
     \* still there, and the name/value pairs set since clearenv()
     environ |-> [own |-> TRUE, vars |-> {}],
     cgroup |-> "own",
     cgroup_procs |-> << >>,  \* the bytes the kernel accepted on cgroup_procs_fd
     uid |-> -1, gid |-> -1,
     inheritable |-> {}, ambient |-> {}, effective |-> {}, permitted |-> {},
     cap_last |-> -1,
     cap_valid_last |-> -1]   \* highest cap prctl(PR_CAPBSET_READ) accepts; -1 not asked

hist_init ==
    [nopts |-> 0,
     steps |-> << >>,       \* the steps of do_nsenter that did something, in order
     setns_log |-> << >>,   \* every setns(2) call: pass, nstype, fd, object, rc
     resolved |-> {},       \* nstypes whose fd open_namespaces opened from /proc/<pid>/ns
     enabled_at_entry |-> 0,\* get_namespaces() when resolution finished
     setgroups_log |-> << >>,
     parent_ref |-> [fd |-> -1, islocal |-> FALSE, obj |-> Obj("", "", 0), old |-> -1],
     \* the --all scan: whether the user entry was checked, the result of the
     \* stat of the caller's own user path, the identity of the target's user
     \* namespace, the kinds whose own path is missing, the enabled set before
     \* and after the scan
     scan |-> [asked |-> FALSE, rc |-> "", tid |-> [dev |-> 0, ino |-> 0],
               missing |-> {}, before |-> 0, after |-> 0],
     cwd_saved |-> Obj("", "", 0),  \* the directory open(".") gave at line 1351
     wdns_ctx |-> Obj("", "", 0),   \* mount namespace open(wdns) was looked up in
     wdns_root |-> Obj("", "", 0),  \* root directory it was looked up under
     wdns_nsetns |-> 0,             \* setns calls made before it
     stat_ok |-> TRUE,
     rejected |-> << >>,    \* the -S/-G argument str2unum_or_err ended the run on
     accepted |-> << >>,    \* the last -S/-G argument it returned a number for
     failed |-> "",         \* the failed call of lines 1349-1420 that ended the run
     cred_fail |-> "",      \* the call of lines 1422-1429 that made do_nsenter return
     caps_failed |-> FALSE, \* cap_permitted_to_ambient called err()
     caps_raised |-> FALSE, \* cap_permitted_to_ambient returned
     usage |-> FALSE,       \* usage() was called (-h)
     \* the environment import: the data read, whether the parser read past
     \* the buffer, the records it passed to env_list_add_from_string, the
     \* highest offset it read, the list it returned (head first)
     env |-> [data |-> << >>, size |-> 0, oob |-> FALSE, visits |-> << >>,
              maxread |-> 0, ls |-> << >>],
     getpid |-> 0,          \* what getpid() returned to join_into_cgroup
     cgroup2 |-> "",        \* what is_cgroup2() returned: "yes", "no", "" not called
     exec |-> FALSE]

\* the parent continue_as_child leaves behind, and what it knows of its child
relay_init ==
    [state |-> "none",      \* "waiting" in waitpid, "stopped" by its own SIGSTOP,
                            \* "exited", "killed" by the signal it re-raised
     status |-> -1,         \* the parent's exit status
     child |-> "none",      \* "running", "stopped", "exited", "signaled"
     cstatus |-> -1,        \* the child's exit code or terminating signal
     unreported |-> FALSE,  \* a stop of the child waitpid has not reported yet
     nstops |-> 0,          \* stops of the child so far
     observed |-> 0,        \* stops waitpid reported to the parent
     sent |-> << >>,        \* every kill() of the parent: [to, sig]
     waitfail |-> FALSE,    \* waitpid returned something else than child
     child_done |-> FALSE,  \* the child had terminated when the parent left the loop
     \* the parent's own uid, gid and ambient set (a copy of the forking process's)
     creds |-> [uid |-> -1, gid |-> -1, ambient |-> {}]]

Init ==
    /\ pc = "start"
    /\ status = -1
    /\ pid_to_enter \in EnterPids
    /\ namespace_files = namespace_files_init
    /\ namespace_target_pid = 0
    /\ glob = glob_init
    /\ loc = loc_init
    /\ fdtab = [n \in 0..2 |-> Stdio(n)]
    /\ proc = proc_init
    /\ relay = relay_init
    /\ hist = hist_init

\* err()/errx()/exit(): the process ends with the given status
Exit(code) == pc' = "exited" /\ status' = code

\* "return -1" from do_nsenter: main() then returns 1
ReturnMinusOne == pc' = "exited" /\ status' = MainReturn

Step(name) == [hist EXCEPT !.steps = Append(@, name)]

\* the call after the two passes whose failure is being reported
Failed(op) == [hist EXCEPT !.failed = op]

(* ---------------------------------------------------------------------- *)
(* enable / disable                                                        *)
(* ---------------------------------------------------------------------- *)

\* enable_nsfile(n, NULL): only the flag
enable_nsfile(tab, n) == [tab EXCEPT ![n].enabled = TRUE]

\* enable_nsfile(n, path) after a successful open, newfd is what open returned
enable_nsfile_path(tab, n, newfd) ==
    [tab EXCEPT ![n].fd = newfd, ![n].enabled = TRUE]

\* variant: the flag is cleared but fd is not reset to -1
disable_nsfile_keeps_fd(tab, n) == [tab EXCEPT ![n].enabled = FALSE]

\* disable_nsfile: the table part (the close is FdClose on the descriptor table)
disable_nsfile(tab, n) == [tab EXCEPT ![n].fd = -1, ![n].enabled = FALSE]

\* variant: the descriptor is not closed
disable_nsfile_fds_no_close(ftab, tab, n) == ftab

disable_nsfile_fds(ftab, tab, n) ==
    IF tab[n].fd >= 0 THEN FdClose(ftab, tab[n].fd) ELSE ftab

(* ---------------------------------------------------------------------- *)
(* do_nsenter after the options: which statement runs next                 *)
(* ---------------------------------------------------------------------- *)

\* variant: the credential change and capability propagation placed right
\* after the two passes
Pipeline_cred_first ==
    << "all", "resolve", "open_refs", "open_cgroup", "user_parent", "sk_netns",
       "final_set", "enter1", "enter2", "cred", "caps", "save_cwd", "chroot", "wdns",
       "chdir", "env", "join_cgroup", "uid_gid", "fork", "exec" >>

\* variant: the in-namespace working directory is opened with the other
\* references, before the two passes
Pipeline_wdns_first ==
    << "all", "resolve", "open_refs", "wdns", "open_cgroup", "user_parent", "sk_netns",
       "final_set", "enter1", "enter2", "save_cwd", "chroot",
       "chdir", "env", "join_cgroup", "uid_gid", "fork", "cred", "caps", "exec" >>

\* variant: the credentials are changed before the second pass
Pipeline_cred_before_enter2 ==
    << "all", "resolve", "open_refs", "open_cgroup", "user_parent", "sk_netns",
       "final_set", "enter1", "cred", "enter2", "save_cwd", "chroot", "wdns",
       "chdir", "env", "join_cgroup", "uid_gid", "fork", "caps", "exec" >>

\* the statements of do_nsenter after the getopt loop, in source order
Pipeline ==
    << "all", "resolve", "open_refs", "open_cgroup", "user_parent", "sk_netns",
       "final_set", "enter1", "enter2", "save_cwd", "chroot", "wdns",
       "chdir", "env", "join_cgroup", "uid_gid", "fork", "cred", "caps", "exec" >>

\* variant: every value of do_fork but 0 forks
wants_fork_unless_refused(l) == l.do_fork # 0

\* "if (do_fork == 1) continue_as_child();"
wants_fork(l) == l.do_fork = 1

\* variant: the current directory is never remembered
remember_cwd_never(g, l) == FALSE

\* "if (root_fd >= 0 && wd_fd < 0 && wdns == NULL)"
remember_cwd(g, l) == g.root_fd >= 0 /\ g.wd_fd < 0 /\ l.wdns = ""

\* the condition of the if that guards each statement
Applies(p, g, l) ==
    CASE p = "all" -> l.do_all
      [] p = "open_refs" -> l.do_rd \/ l.do_wd \/ l.do_env \/ l.do_uid \/ l.do_gid
      [] p = "open_cgroup" -> l.do_join_cgroup
      [] p = "user_parent" -> l.do_user_parent
      [] p = "sk_netns" -> l.sock_fd >= 0
      [] p = "enter2" -> l.namespaces # 0
      [] p = "save_cwd" -> remember_cwd(g, l)
      [] p = "chroot" -> g.root_fd >= 0
      [] p = "wdns" -> l.wdns # ""
      [] p = "chdir" -> g.wd_fd >= 0
      [] p = "env" -> g.env_fd >= 0
      [] p = "join_cgroup" -> g.cgroup_procs_fd >= 0
      [] p = "uid_gid" -> g.uid_gid_fd >= 0
      [] p = "fork" -> wants_fork(l)
      [] p = "cred" -> l.force_uid \/ l.force_gid
      [] p = "caps" -> l.keepcaps # 0 /\ HasBit(l.namespaces, CLONE_NEWUSER)
      [] OTHER -> TRUE

RECURSIVE FirstFrom(_, _, _)
FirstFrom(i, g, l) ==
    IF Applies(Pipeline[i], g, l) THEN Pipeline[i] ELSE FirstFrom(i + 1, g, l)

PosOf(p) == CHOOSE i \in 1..Len(Pipeline) : Pipeline[i] = p

\* the statement control reaches after p, with the globals and locals as p left them
After(p, g, l) == FirstFrom(PosOf(p) + 1, g, l)

(* ---------------------------------------------------------------------- *)
(* do_nsenter: prologue and option parsing                                 *)
(* ---------------------------------------------------------------------- *)

\* variant: the defaults are never applied
default_enter_never(pid) == FALSE

\* if (pid_to_enter > 1)
default_enter(pid) == pid > 1

\* yawl: --preserve-credentials --user --mount by default when enter > 1
Prologue ==
    /\ pc = "start"
    /\ pc' = "getopt"
    /\ IF default_enter(pid_to_enter)
       THEN /\ namespace_target_pid' = pid_to_enter
            /\ loc' = [loc EXCEPT !.preserve_cred = 1]
            /\ namespace_files' =
                 enable_nsfile(
                   enable_nsfile(namespace_files, get_nsfile(namespace_files, CLONE_NEWUSER)),
                   get_nsfile(namespace_files, CLONE_NEWNS))
       ELSE UNCHANGED << namespace_target_pid, loc, namespace_files >>
    /\ UNCHANGED << status, pid_to_enter, glob, fdtab, proc, relay, hist >>

\* getopt_long returned an option: one more trip round the while loop
InGetopt == pc = "getopt" /\ hist.nopts < MaxOpts
Counted == [hist EXCEPT !.nopts = @ + 1]

\* err_exclusive_options for the one group {'W', 'w'}
Exclusive(c) == loc.excl_st = "" \/ loc.excl_st = c

OptAll ==
    /\ InGetopt
    /\ loc' = [loc EXCEPT !.do_all = TRUE]
    /\ hist' = Counted
    /\ UNCHANGED << pc, status, pid_to_enter, namespace_files, namespace_target_pid,
                    glob, fdtab, proc, relay >>

\* -t <pid>; p = 0 stands for every string strtoul_or_err rejects
OptTarget ==
    /\ InGetopt
    /\ \E p \in TargetPids \cup {0} :
         IF p = 0
         THEN /\ Exit(EXIT_FAILURE)
              /\ UNCHANGED namespace_target_pid
         ELSE /\ namespace_target_pid' = p
              /\ UNCHANGED << pc, status >>
    /\ hist' = Counted
    /\ UNCHANGED << pid_to_enter, namespace_files, glob, loc, fdtab, proc, relay >>

\* -m -u -i -n -p -C -U -T without =<file>
OptNamespace ==
    /\ InGetopt
    /\ \E k \in ToggleKinds :
         namespace_files' = enable_nsfile(namespace_files, get_nsfile(namespace_files, k))
    /\ hist' = Counted
    /\ UNCHANGED << pc, status, pid_to_enter, namespace_target_pid, glob, loc,
                    fdtab, proc, relay >>

\* -m=<file> ... : enable_namespace(nstype, optarg) with optarg set
OptNamespacePath ==
    /\ InGetopt
    /\ \E k \in PathKinds, ok \in BOOLEAN :
         LET n == get_nsfile(namespace_files, k)
             o == open_target_fd(fdtab, namespace_files[n].fd,
                                 TargetObj(namespace_files[n].name,
                                           namespace_files[n].name, 0))
         IN  IF ok
             THEN /\ fdtab' = o.tab
                  /\ namespace_files' = enable_nsfile_path(namespace_files, n, o.fd)
                  /\ UNCHANGED << pc, status >>
             ELSE /\ fdtab' = open_target_fd_failed(fdtab, namespace_files[n].fd)
                  /\ namespace_files' = [namespace_files EXCEPT ![n].fd = -1]
                  /\ Exit(EXIT_FAILURE)
    /\ hist' = Counted
    /\ UNCHANGED << pid_to_enter, namespace_target_pid, glob, loc, proc, relay >>

\* -N <fd>
OptNetSocket ==
    /\ InGetopt
    /\ \E f \in SockFds : loc' = [loc EXCEPT !.sock_fd = f]
    /\ hist' = Counted
    /\ UNCHANGED << pc, status, pid_to_enter, namespace_files, namespace_target_pid,
                    glob, fdtab, proc, relay >>

\* the longest prefix of str made of digits
RECURSIVE DigitPrefix(_)
DigitPrefix(str) ==
    IF str = << >> \/ str[1] \notin 0..9 THEN << >>
    ELSE << str[1] >> \o DigitPrefix(Tail(str))

\* the number the digits ds denote, most significant first
RECURSIVE DigitsValue(_)
DigitsValue(ds) ==
    IF ds = << >> THEN 0 ELSE DigitsValue(SubSeq(ds, 1, Len(ds) - 1)) * 10 + ds[Len(ds)]

\* ul_strtou64(str, &num, 10): rc and *num.  Empty string: EINVAL; strtoumax
\* converts the digits in front; nothing converted or bytes left over: EINVAL
ul_strtou64(str) ==
    LET ds == DigitPrefix(str)
    IN  IF str = << >> THEN [rc |-> "EINVAL", num |-> 0]
        ELSE IF ds = << >> \/ Len(ds) < Len(str)
             THEN [rc |-> "EINVAL", num |-> DigitsValue(ds)]
        ELSE [rc |-> "", num |-> DigitsValue(ds)]

\* str2unum: "if (rc) return 0; return num;"
str2unum(str) == IF ul_strtou64(str).rc # "" THEN 0 ELSE ul_strtou64(str).num

\* str2unum_or_err: "if (!(num = str2unum(str, base))) err/errx(EXIT_FAILURE, ...)"
str2unum_or_err_exits(num) == num = 0

\* -S follow | -S <uid>
OptSetuid ==
    /\ InGetopt
    /\ \E follow \in BOOLEAN, optarg \in IdArgs :
         LET num == str2unum(optarg)
         IN  IF follow
             THEN /\ optarg = << 0 >>
                  /\ loc' = [loc EXCEPT !.do_uid = TRUE, !.force_uid = TRUE]
                  /\ hist' = Counted
                  /\ UNCHANGED << pc, status >>
             ELSE IF str2unum_or_err_exits(num)
             THEN /\ Exit(EXIT_FAILURE)
                  /\ hist' = [Counted EXCEPT !.rejected = optarg]
                  /\ UNCHANGED loc
             ELSE /\ loc' = [loc EXCEPT !.uid = num, !.force_uid = TRUE]
                  /\ hist' = [Counted EXCEPT !.accepted = optarg]
                  /\ UNCHANGED << pc, status >>
    /\ UNCHANGED << pid_to_enter, namespace_files, namespace_target_pid, glob,
                    fdtab, proc, relay >>

\* -G follow | -G <gid>
OptSetgid ==
    /\ InGetopt
    /\ \E follow \in BOOLEAN, optarg \in IdArgs :
         LET num == str2unum(optarg)
         IN  IF follow
             THEN /\ optarg = << 0 >>
                  /\ loc' = [loc EXCEPT !.do_gid = TRUE, !.force_gid = TRUE]
                  /\ hist' = Counted
                  /\ UNCHANGED << pc, status >>
             ELSE IF str2unum_or_err_exits(num)
             THEN /\ Exit(EXIT_FAILURE)
                  /\ hist' = [Counted EXCEPT !.rejected = optarg]
                  /\ UNCHANGED loc
             ELSE /\ loc' = [loc EXCEPT !.gid = num, !.force_gid = TRUE]
                  /\ hist' = [Counted EXCEPT !.accepted = optarg]
                  /\ UNCHANGED << pc, status >>
    /\ UNCHANGED << pid_to_enter, namespace_files, namespace_target_pid, glob,
                    fdtab, proc, relay >>

\* -F, -c, -e, --preserve-credentials, --keep-caps, --user-parent
OptFlag ==
    /\ InGetopt
    /\ \E c \in {"F", "c", "e", "preserve", "keepcaps", "userparent"} :
         loc' = CASE c = "F" -> [loc EXCEPT !.do_fork = 0]
                  [] c = "c" -> [loc EXCEPT !.do_join_cgroup = TRUE]
                  [] c = "e" -> [loc EXCEPT !.do_env = TRUE]
                  [] c = "preserve" -> [loc EXCEPT !.preserve_cred = 1]
                  [] c = "keepcaps" -> [loc EXCEPT !.keepcaps = 1]
                  [] c = "userparent" -> [loc EXCEPT !.do_user_parent = TRUE]
    /\ hist' = Counted
    /\ UNCHANGED << pc, status, pid_to_enter, namespace_files, namespace_target_pid,
                    glob, fdtab, proc, relay >>

\* -r / -r=<dir>
OptRoot ==
    /\ InGetopt
    /\ \E withpath \in BOOLEAN, ok \in BOOLEAN :
         IF ~withpath
         THEN /\ ok
              /\ loc' = [loc EXCEPT !.do_rd = TRUE]
              /\ UNCHANGED << pc, status, glob, fdtab >>
         ELSE IF ok
         THEN LET o == open_target_fd(fdtab, glob.root_fd, TargetObj("root", "root", 0))
              IN  /\ fdtab' = o.tab
                  /\ glob' = [glob EXCEPT !.root_fd = o.fd]
                  /\ UNCHANGED << pc, status, loc >>
         ELSE /\ fdtab' = open_target_fd_failed(fdtab, glob.root_fd)
              /\ glob' = [glob EXCEPT !.root_fd = -1]
              /\ Exit(EXIT_FAILURE)
              /\ UNCHANGED loc
    /\ hist' = Counted
    /\ UNCHANGED << pid_to_enter, namespace_files, namespace_target_pid, proc, relay >>

\* -w / -w=<dir>; err_exclusive_options ends the run when -W was seen before
OptWd ==
    /\ InGetopt
    /\ IF ~Exclusive("w")
       THEN /\ Exit(EXIT_FAILURE)
            /\ UNCHANGED << glob, fdtab, loc >>
       ELSE \E withpath \in BOOLEAN, ok \in BOOLEAN :
         IF ~withpath
         THEN /\ ok
              /\ loc' = [loc EXCEPT !.do_wd = TRUE, !.excl_st = "w"]
              /\ UNCHANGED << pc, status, glob, fdtab >>
         ELSE IF ok
         THEN LET o == open_target_fd(fdtab, glob.wd_fd, TargetObj("cwd", "cwd", 0))
              IN  /\ fdtab' = o.tab
                  /\ glob' = [glob EXCEPT !.wd_fd = o.fd]
                  /\ loc' = [loc EXCEPT !.excl_st = "w"]
                  /\ UNCHANGED << pc, status >>
         ELSE /\ fdtab' = open_target_fd_failed(fdtab, glob.wd_fd)
              /\ glob' = [glob EXCEPT !.wd_fd = -1]
              /\ loc' = [loc EXCEPT !.excl_st = "w"]
              /\ Exit(EXIT_FAILURE)
    /\ hist' = Counted
    /\ UNCHANGED << pid_to_enter, namespace_files, namespace_target_pid, proc, relay >>

\* -W<dir>
OptWdns ==
    /\ InGetopt
    /\ IF ~Exclusive("W")
       THEN /\ Exit(EXIT_FAILURE)
            /\ UNCHANGED loc
       ELSE /\ loc' = [loc EXCEPT !.wdns = "wdns", !.excl_st = "W"]
            /\ UNCHANGED << pc, status >>
    /\ hist' = Counted
    /\ UNCHANGED << pid_to_enter, namespace_files, namespace_target_pid, glob,
                    fdtab, proc, relay >>

\* -h: usage() prints and calls exit(EXIT_SUCCESS)
OptHelp ==
    /\ InGetopt
    /\ Exit(EXIT_SUCCESS)
    /\ hist' = [Counted EXCEPT !.usage = TRUE]
    /\ UNCHANGED << pid_to_enter, namespace_files, namespace_target_pid, glob, loc,
                    fdtab, proc, relay >>

\* default: of the switch (also -V and -Z, which have no case)
OptUnrecognized ==
    /\ InGetopt
    /\ ReturnMinusOne
    /\ hist' = Counted
    /\ UNCHANGED << pid_to_enter, namespace_files, namespace_target_pid, glob, loc,
                    fdtab, proc, relay >>

\* getopt_long returned -1
EndOfOptions ==
    /\ pc = "getopt"
    /\ pc' = FirstFrom(1, glob, loc)
    /\ UNCHANGED << status, pid_to_enter, namespace_files, namespace_target_pid,
                    glob, loc, fdtab, proc, relay, hist >>

(* ---------------------------------------------------------------------- *)
(* --all: is_usable_namespace                                              *)
(* ---------------------------------------------------------------------- *)

\* identity of a namespace file as stat(2) reports it
NsId(d, i) == [dev |-> d, ino |-> i]
MyUserNs == NsId(1, 1)
\* the target's user namespace: the caller's own, another one on the same
\* device, or one with the same inode number on another device
TargetUserNsIds == {NsId(1, 1), NsId(1, 2), NsId(2, 1)}

\* get_ns_ino keeps st_ino only; a failed stat leaves *ino as it was (0)
get_ns_ino(ok, id) == IF ok THEN id.ino ELSE 0

\* is_usable_namespace(target, nsfile): rc is the result of the stat of the
\* caller's own path ("ok", "ENOENT", "EACCES"), tid the identity of the
\* target's path (stat of it succeeded)
is_usable_namespace(nstype, rc, tid) ==
    IF rc = "ENOENT" THEN FALSE
    ELSE IF HasBit(CLONE_NEWUSER, nstype)
         THEN get_ns_ino(rc = "ok", MyUserNs) # get_ns_ino(TRUE, tid)
         ELSE TRUE

\* the loop "while ((n = next_nsfile(n, 0)))" of --all over the entries idxs
RECURSIVE ScanAll(_, _, _, _, _)
ScanAll(tab, idxs, missing, userrc, tid) ==
    IF idxs = << >> THEN tab
    ELSE LET n == Head(idxs)
             rc == IF tab[n].nstype = CLONE_NEWUSER THEN userrc
                   ELSE IF tab[n].nstype \in missing THEN "ENOENT" ELSE "ok"
         IN  ScanAll(IF tab[n].enabled \/ ~is_usable_namespace(tab[n].nstype, rc, tid)
                     THEN tab ELSE enable_nsfile(tab, n),
                     Tail(idxs), missing, userrc, tid)

EnableAll ==
    /\ pc = "all"
    /\ \E missing \in {MayBeMissing},
          userrc \in {"ok", "ENOENT", "EACCES"},
          tid \in TargetUserNsIds \cup {NsId(0, 0)} :
         LET user == namespace_files[get_nsfile(namespace_files, CLONE_NEWUSER)]
             asked == ~user.enabled /\ userrc # "ENOENT"
         IN  \* NsId(0, 0): the stat of /proc/<target>/ns/user failed
             /\ namespace_target_pid = 0 => tid = NsId(0, 0)
             /\ (~asked /\ namespace_target_pid # 0) => tid \in {NsId(1, 1), NsId(1, 2)}
             /\ user.enabled => userrc = "ok"
             /\ IF asked /\ tid = NsId(0, 0)
                THEN /\ Exit(EXIT_FAILURE)
                     /\ UNCHANGED << namespace_files, hist >>
                ELSE /\ namespace_files' =
                          ScanAll(namespace_files, Iterate(namespace_files, 0, FALSE),
                                  missing, userrc, tid)
                     /\ pc' = After("all", glob, loc)
                     /\ hist' = [Step("all") EXCEPT
                                   !.scan = [asked |-> asked, rc |-> userrc, tid |-> tid,
                                             missing |-> missing,
                                             before |-> get_namespaces(namespace_files),
                                             after |-> get_namespaces(namespace_files')]]
                     /\ UNCHANGED status
    /\ UNCHANGED << pid_to_enter, namespace_target_pid, glob, loc, fdtab, proc, relay >>

(* ---------------------------------------------------------------------- *)
(* Resolution                                                              *)
(* ---------------------------------------------------------------------- *)

\* open_namespaces(namespaces) over the entries idxs, every open succeeding
RECURSIVE open_namespaces(_, _, _)
open_namespaces(st, idxs, pid) ==
    IF idxs = << >> THEN st
    ELSE LET n == Head(idxs)
         IN  IF st.files[n].fd < 0
             THEN LET o == open_target_fd(st.tab, st.files[n].fd,
                                          TargetObj(st.files[n].name, "", pid))
                  IN  open_namespaces(
                        [files |-> [st.files EXCEPT ![n].fd = o.fd], tab |-> o.tab,
                         opened |-> st.opened \cup {st.files[n].nstype}],
                        Tail(idxs), pid)
             ELSE open_namespaces(st, Tail(idxs), pid)

\* namespaces = get_namespaces_without_fd(); ... open_namespaces(namespaces)
Resolve ==
    /\ pc = "resolve"
    /\ LET namespaces == get_namespaces_without_fd(namespace_files)
           todo == Iterate(namespace_files, namespaces, TRUE)
       IN  IF namespaces # 0 \/ loc.sock_fd >= 0 \/ loc.do_user_parent
           THEN IF namespace_target_pid = 0
                THEN /\ ReturnMinusOne
                     /\ UNCHANGED << namespace_files, fdtab, hist, loc >>
                ELSE IF loc.pid_fd < 0 /\ namespaces # 0
                THEN \E failat \in 0..Len(todo) :
                       LET upto == IF failat = 0 THEN todo ELSE SubSeq(todo, 1, failat - 1)
                           r == open_namespaces(
                                  [files |-> namespace_files, tab |-> fdtab, opened |-> {}],
                                  upto, namespace_target_pid)
                       IN  /\ namespace_files' = r.files
                           /\ fdtab' = r.tab
                           /\ loc' = [loc EXCEPT !.namespaces = namespaces]
                           /\ hist' = [Step("resolve") EXCEPT !.resolved = r.opened]
                           /\ IF failat = 0
                              THEN pc' = After("resolve", glob, loc) /\ UNCHANGED status
                              ELSE Exit(EXIT_FAILURE)
                ELSE /\ pc' = After("resolve", glob, loc)
                     /\ loc' = [loc EXCEPT !.namespaces = namespaces]
                     /\ UNCHANGED << status, namespace_files, fdtab, hist >>
           ELSE /\ pc' = After("resolve", glob, loc)
                /\ loc' = [loc EXCEPT !.namespaces = namespaces]
                /\ UNCHANGED << status, namespace_files, fdtab, hist >>
    /\ UNCHANGED << pid_to_enter, namespace_target_pid, glob, proc, relay >>

\* the open_target_fd(&x_fd, type, NULL) calls of lines 1291-1298 that run
RefsWanted(l) ==
    (IF l.do_rd THEN << [fd |-> "root_fd", type |-> "root"] >> ELSE << >>) \o
    (IF l.do_wd THEN << [fd |-> "wd_fd", type |-> "cwd"] >> ELSE << >>) \o
    (IF l.do_env THEN << [fd |-> "env_fd", type |-> "environ"] >> ELSE << >>) \o
    (IF l.do_uid \/ l.do_gid THEN << [fd |-> "uid_gid_fd", type |-> ""] >> ELSE << >>)

RECURSIVE open_refs(_, _, _)
open_refs(st, refs, pid) ==
    IF refs = << >> THEN st
    ELSE LET r == Head(refs)
             o == open_target_fd(st.tab, st.g[r.fd], TargetObj(r.type, "", pid))
         IN  open_refs([g |-> [st.g EXCEPT ![r.fd] = o.fd], tab |-> o.tab],
                       Tail(refs), pid)

OpenRefs ==
    /\ pc = "open_refs"
    /\ LET refs == RefsWanted(loc)
       IN  IF namespace_target_pid = 0
           THEN \* "neither filename nor target pid supplied"
                /\ Exit(EXIT_FAILURE)
                /\ UNCHANGED << glob, fdtab, hist >>
           ELSE \E failat \in 0..Len(refs) :
                  LET upto == IF failat = 0 THEN refs ELSE SubSeq(refs, 1, failat - 1)
                      r == open_refs([g |-> glob, tab |-> fdtab], upto, namespace_target_pid)
                  IN  IF failat = 0
                      THEN /\ glob' = r.g
                           /\ fdtab' = r.tab
                           /\ pc' = After("open_refs", r.g, loc)
                           /\ hist' = Step("open_refs")
                           /\ UNCHANGED status
                      ELSE /\ glob' = [r.g EXCEPT ![refs[failat].fd] = -1]
                           /\ fdtab' = open_target_fd_failed(r.tab, r.g[refs[failat].fd])
                           /\ Exit(EXIT_FAILURE)
                           /\ UNCHANGED hist
    /\ UNCHANGED << pid_to_enter, namespace_files, namespace_target_pid, loc, proc, relay >>

\* the local "int cgroup_fd = 0" of open_cgroup_procs
CgroupFdInit == 0

\* is_cgroup2(): statfs(/sys/fs/cgroup) succeeded and f_type is the cgroup2 magic
is_cgroup2(statfs_ok, magic_is_v2) == statfs_ok /\ magic_is_v2

\* variant: the check of the cgroup version is not made
not_cgroup2_fatal_never(v2) == FALSE

\* "if (!is_cgroup2()) LOG_ERROR_RET_MINUSONE(...)"
not_cgroup2_fatal(v2) == ~v2

\* if (do_join_cgroup) { if (!is_cgroup2()) return -1; open_cgroup_procs(); }
OpenCgroup ==
    /\ pc = "open_cgroup"
    /\ \E statfs_ok \in BOOLEAN, magic_is_v2 \in BOOLEAN,
          res \in {"no_open", "no_path", "no_procs", "ok"} :
         LET o == open_target_fd(fdtab, CgroupFdInit,
                                 TargetObj("cgroup", "", namespace_target_pid))
             v2 == is_cgroup2(statfs_ok, magic_is_v2)
             h == [hist EXCEPT !.cgroup2 = IF v2 THEN "yes" ELSE "no"]
         IN  /\ ~statfs_ok => ~magic_is_v2
             /\ IF not_cgroup2_fatal(v2)
                THEN /\ res = "ok"
                     /\ ReturnMinusOne
                     /\ hist' = h
                     /\ UNCHANGED << glob, fdtab >>
                ELSE CASE res = "no_open" ->
                            /\ Exit(EXIT_FAILURE)
                            /\ fdtab' = IF namespace_target_pid = 0 THEN fdtab
                                        ELSE open_target_fd_failed(fdtab, CgroupFdInit)
                            /\ hist' = h
                            /\ UNCHANGED glob
                       [] res = "no_path" ->
                            \* read_all_alloc or the parse of the first line failed
                            /\ namespace_target_pid # 0
                            /\ Exit(EXIT_FAILURE)
                            /\ fdtab' = o.tab
                            /\ hist' = h
                            /\ UNCHANGED glob
                       [] res = "no_procs" ->
                            /\ namespace_target_pid # 0
                            /\ Exit(EXIT_FAILURE)
                            /\ fdtab' = o.tab
                            /\ hist' = h
                            /\ UNCHANGED glob
                       [] res = "ok" ->
                            /\ namespace_target_pid # 0
                            /\ fdtab' = FdOpen(o.tab, Obj("cgroup.procs", "cgroup",
                                                          namespace_target_pid))
                            /\ glob' = [glob EXCEPT !.cgroup_procs_fd = LowestFree(o.tab)]
                            /\ pc' = After("open_cgroup", glob', loc)
                            /\ hist' = [h EXCEPT !.steps = Append(@, "open_cgroup")]
                            /\ UNCHANGED status
    /\ UNCHANGED << pid_to_enter, namespace_files, namespace_target_pid, loc, proc, relay >>

\* open_parent_user_ns_fd(pid_fd): which descriptor the ioctl is issued on.
\* src = "user": the User entry's; "any": the first enabled entry's;
\* "open": a fresh open of /proc/<pid>/ns/user (islocal)
parent_ref(tab, pid_fd) ==
    LET user == tab[get_nsfile(tab, CLONE_NEWUSER)]
        fd1 == IF user.enabled THEN user.fd ELSE -1
        n == get_enabled_nsfile(tab, 0)
        fd2 == IF fd1 < 0 /\ n # NULL THEN tab[n].fd ELSE fd1
    IN  [fd |-> fd2, islocal |-> fd2 < 0]

OpenParentUserNs ==
    /\ pc = "user_parent"
    /\ \E ok_open \in BOOLEAN, ok_ioctl \in BOOLEAN :
         LET u == get_nsfile(namespace_files, CLONE_NEWUSER)
             user == namespace_files[u]
             ref == parent_ref(namespace_files, loc.pid_fd)
             o == IF ref.islocal
                  THEN open_target_fd(fdtab, -1, TargetObj("ns/user", "", namespace_target_pid))
                  ELSE [tab |-> fdtab, fd |-> ref.fd]
             parent_fd == LowestFree(o.tab)
             t1 == FdOpen(o.tab, OwnerOf(o.tab[o.fd]))
             t2 == IF ref.islocal THEN FdClose(t1, o.fd) ELSE t1
             t3 == IF user.fd > 0 THEN FdClose(t2, user.fd) ELSE t2
         IN  /\ ref.islocal \/ ok_open
             /\ IF ref.islocal /\ ~ok_open
                THEN /\ ok_ioctl
                     /\ Exit(EXIT_FAILURE)
                     /\ UNCHANGED << namespace_files, fdtab, hist >>
                ELSE IF ~ok_ioctl
                THEN /\ Exit(EXIT_FAILURE)
                     /\ fdtab' = o.tab
                     /\ UNCHANGED << namespace_files, hist >>
                ELSE /\ fdtab' = t3
                     /\ namespace_files' =
                          [namespace_files EXCEPT ![u].fd = parent_fd, ![u].enabled = TRUE]
                     /\ pc' = After("user_parent", glob, loc)
                     /\ hist' = [Step("user_parent") EXCEPT
                                   !.parent_ref = [fd |-> o.fd, islocal |-> ref.islocal,
                                                   obj |-> o.tab[o.fd], old |-> user.fd]]
                     /\ UNCHANGED status
    /\ UNCHANGED << pid_to_enter, namespace_target_pid, glob, loc, proc, relay >>

\* open_target_sk_netns(pidfd, sock_fd) with pidfd < 0
OpenSkNetns ==
    /\ pc = "sk_netns"
    /\ \E res \in {"no_pidfd", "no_getfd", "no_fstat", "no_ioctl", "ok"} :
         LET n == get_nsfile(namespace_files, CLONE_NEWNET)
             pidfd == LowestFree(fdtab)
             t1 == FdOpen(fdtab, Obj("pidfd", "", namespace_target_pid))
             sk == LowestFree(t1)
             t2 == FdOpen(t1, Obj("socket", "", namespace_target_pid))
             nsfd == LowestFree(t2)
             t3 == FdOpen(t2, Obj("netns_of_socket", "ns/net", namespace_target_pid))
             t4 == IF namespace_files[n].fd >= 0
                   THEN FdClose(t3, namespace_files[n].fd) ELSE t3
             t5 == FdClose(FdClose(t4, sk), pidfd)
         IN  CASE res = "no_pidfd" ->
                    /\ Exit(EXIT_FAILURE)
                    /\ UNCHANGED << namespace_files, fdtab, hist >>
               [] res = "no_getfd" ->
                    /\ Exit(EXIT_FAILURE)
                    /\ fdtab' = t1
                    /\ UNCHANGED << namespace_files, hist >>
               [] res \in {"no_fstat", "no_ioctl"} ->
                    /\ Exit(EXIT_FAILURE)
                    /\ fdtab' = t2
                    /\ UNCHANGED << namespace_files, hist >>
               [] res = "ok" ->
                    /\ fdtab' = t5
                    /\ namespace_files' =
                          [namespace_files EXCEPT ![n].fd = nsfd, ![n].enabled = TRUE]
                    /\ pc' = After("sk_netns", glob, loc)
                    /\ hist' = Step("sk_netns")
                    /\ UNCHANGED status
    /\ UNCHANGED << pid_to_enter, namespace_target_pid, glob, loc, proc, relay >>

\* variant: preserve_cred is not consulted
force_by_default_always(namespaces, preserve_cred) == HasBit(namespaces, CLONE_NEWUSER)

\* if ((namespaces & CLONE_NEWUSER) && !preserve_cred)
force_by_default(namespaces, preserve_cred) ==
    HasBit(namespaces, CLONE_NEWUSER) /\ preserve_cred = 0

\* lines 1315-1331: the final set, do_fork, force_uid/force_gid, first setgroups
FinalSet ==
    /\ pc = "final_set"
    /\ LET namespaces == get_namespaces(namespace_files)
           l1 == [loc EXCEPT !.namespaces = namespaces,
                             !.do_fork = IF HasBit(namespaces, CLONE_NEWPID) /\ @ = -1
                                         THEN 1 ELSE @]
       IN  IF namespaces = 0
           THEN /\ ReturnMinusOne
                /\ loc' = [loc EXCEPT !.namespaces = namespaces]
                /\ UNCHANGED << hist, proc >>
           ELSE IF force_by_default(namespaces, loc.preserve_cred)
           THEN \E ok \in BOOLEAN :
                  /\ loc' = [l1 EXCEPT !.force_uid = TRUE, !.force_gid = TRUE,
                                       !.setgroups_nerrs = IF ok THEN @ ELSE @ + 1]
                  /\ proc' = [proc EXCEPT !.groups_dropped = @ \/ ok]
                  /\ hist' = [Step("final_set") EXCEPT
                                !.enabled_at_entry = namespaces,
                                !.setgroups_log = Append(@, ok)]
                  /\ pc' = After("final_set", glob, loc')
                  /\ UNCHANGED status
           ELSE /\ loc' = l1
                /\ hist' = [Step("final_set") EXCEPT !.enabled_at_entry = namespaces]
                /\ pc' = After("final_set", glob, loc')
                /\ UNCHANGED << status, proc >>
    /\ UNCHANGED << pid_to_enter, namespace_files, namespace_target_pid, glob,
                    fdtab, relay >>

(* ---------------------------------------------------------------------- *)
(* Entry: enter_namespaces, do_setns                                       *)
(* ---------------------------------------------------------------------- *)

\* what a successful setns(fd, nstype) does to the caller: it becomes a member
\* of the namespace, except for a PID namespace, which only becomes the
\* namespace of the children the caller creates from then on
setns_effect(p, nstype, obj) ==
    IF nstype = CLONE_NEWPID
    THEN [p EXCEPT !.pid_for_children = obj]
    ELSE [p EXCEPT !.ns[nstype] = obj]

SetnsFailures == Cardinality({i \in 1..Len(hist.setns_log) : ~hist.setns_log[i].ok})

\* the mask each of the two calls in do_nsenter passes
PassMask(pass, namespaces) ==
    IF pass = 1 THEN ClearBit(namespaces, CLONE_NEWUSER) ELSE namespaces

\* variant: ignore_errors is not consulted
do_setns_fatal_always(ok, ignore_errors) == ~ok

\* do_setns: err(EXIT_FAILURE, ...) when setns failed and errors are reported
do_setns_fatal(ok, ignore_errors) == ~ok /\ ~ignore_errors

\* variant: the entry is disabled whatever do_setns returned
entry_consumed_always(ok) == TRUE

\* "if (do_setns(...) == 0) disable_nsfile(n);"
entry_consumed(ok) == ok

\* first part of enter_namespaces: "if (pid_fd) { ... }".  pid_fd is -1,
\* which is true in C; setns(-1, ns) cannot succeed
EnterNamespaces ==
    /\ pc \in {"enter1", "enter2"}
    /\ loc.pass = 0
    /\ LET pass == IF pc = "enter1" THEN 1 ELSE 2
           namespaces == PassMask(pass, loc.namespaces)
           ignore_errors == pass = 1
           ns == MaskOf(namespace_files,
                        FilterSeq(namespace_files,
                                  Iterate(namespace_files, namespaces, TRUE), TRUE))
           batch == loc.pid_fd # 0 /\ ns # 0
       IN  /\ loc' = [loc EXCEPT !.pass = pass, !.arg_namespaces = namespaces,
                                 !.ignore_errors = ignore_errors, !.n = NULL]
           /\ hist' = IF batch
                      THEN [hist EXCEPT !.setns_log =
                              Append(@, [pass |-> pass, nstype |-> ns, fd |-> loc.pid_fd,
                                         obj |-> Obj("none", "", 0), ok |-> FALSE])]
                      ELSE hist
           /\ IF batch /\ do_setns_fatal(FALSE, ignore_errors)
              THEN Exit(EXIT_FAILURE)
              ELSE UNCHANGED << pc, status >>
    /\ UNCHANGED << pid_to_enter, namespace_files, namespace_target_pid, glob,
                    fdtab, proc, relay >>

\* second loop of enter_namespaces: the next enabled entry of the mask that
\* holds a descriptor ("if (n->fd < 0) continue;")
RECURSIVE NextToEnter(_, _, _)
NextToEnter(tab, n, namespaces) ==
    LET m == next_enabled_nsfile(tab, n, namespaces)
    IN  IF m = NULL THEN NULL
        ELSE IF tab[m].fd < 0 THEN NextToEnter(tab, m, namespaces)
        ELSE m

\* one do_setns(n->fd, n->nstype, n->name, ignore_errors) of the second loop
Setns ==
    /\ pc \in {"enter1", "enter2"}
    /\ loc.pass # 0
    /\ LET n == NextToEnter(namespace_files, loc.n, loc.arg_namespaces)
           e == namespace_files[n]
       IN  /\ n # NULL
           /\ \E ok \in BOOLEAN :
                /\ ok \/ SetnsFailures < MaxSetnsFail
                /\ hist' = [hist EXCEPT !.setns_log =
                              Append(@, [pass |-> loc.pass, nstype |-> e.nstype, fd |-> e.fd,
                                         obj |-> fdtab[e.fd], ok |-> ok])]
                /\ loc' = [loc EXCEPT !.n = n]
                /\ proc' = IF ok THEN setns_effect(proc, e.nstype, fdtab[e.fd]) ELSE proc
                /\ IF do_setns_fatal(ok, loc.ignore_errors)
                   THEN /\ Exit(EXIT_FAILURE)
                        /\ UNCHANGED << namespace_files, fdtab >>
                   ELSE /\ UNCHANGED << pc, status >>
                        /\ IF entry_consumed(ok)
                           THEN /\ namespace_files' = disable_nsfile(namespace_files, n)
                                /\ fdtab' = disable_nsfile_fds(fdtab, namespace_files, n)
                           ELSE UNCHANGED << namespace_files, fdtab >>
    /\ UNCHANGED << pid_to_enter, namespace_target_pid, glob, relay >>

\* enter_namespaces returns; after the first call: namespaces = get_namespaces()
EndPass ==
    /\ pc \in {"enter1", "enter2"}
    /\ loc.pass # 0
    /\ NextToEnter(namespace_files, loc.n, loc.arg_namespaces) = NULL
    /\ loc' = [loc EXCEPT !.pass = 0, !.n = NULL,
                          !.namespaces = IF pc = "enter1"
                                         THEN get_namespaces(namespace_files) ELSE @]
    /\ pc' = After(pc, glob, loc')
    /\ hist' = Step(pc)
    /\ UNCHANGED << status, pid_to_enter, namespace_files, namespace_target_pid,
                    glob, fdtab, proc, relay >>

(* ---------------------------------------------------------------------- *)
(* After entry: directories, environment, cgroup                           *)
(* ---------------------------------------------------------------------- *)

\* wd_fd = open(".", O_RDONLY)
SaveCwd ==
    /\ pc = "save_cwd"
    /\ \E ok \in BOOLEAN :
         IF ok
         THEN /\ fdtab' = FdOpen(fdtab, proc.cwd)
              /\ glob' = [glob EXCEPT !.wd_fd = LowestFree(fdtab)]
              /\ pc' = After("save_cwd", glob', loc)
              /\ hist' = [Step("save_cwd") EXCEPT !.cwd_saved = proc.cwd]
              /\ UNCHANGED status
         ELSE /\ ReturnMinusOne
              /\ hist' = Failed("open_cwd")
              /\ UNCHANGED << fdtab, glob >>
    /\ UNCHANGED << pid_to_enter, namespace_files, namespace_target_pid, loc, proc, relay >>

\* variant: the result of chdir("/") is not looked at
chdir_root_fatal_never(ok) == FALSE

\* "if (chdir("/")) LOG_ERROR_RET_MINUSONE(...)"
chdir_root_fatal(ok) == ~ok

\* fchdir(root_fd); chroot("."); chdir("/"); close(root_fd)
ChangeRoot ==
    /\ pc = "chroot"
    /\ \E res \in {"no_fchdir", "no_chroot", "no_chdir", "ok"} :
         CASE res = "no_fchdir" ->
                /\ ReturnMinusOne
                /\ hist' = Failed("fchdir_root")
                /\ UNCHANGED << fdtab, glob, proc >>
           [] res = "no_chroot" ->
                /\ ReturnMinusOne
                /\ proc' = [proc EXCEPT !.cwd = fdtab[glob.root_fd]]
                /\ hist' = Failed("chroot")
                /\ UNCHANGED << fdtab, glob >>
           [] res \in {"no_chdir", "ok"} ->
                /\ proc' = [proc EXCEPT !.cwd = fdtab[glob.root_fd],
                                        !.root = fdtab[glob.root_fd]]
                /\ IF chdir_root_fatal(res = "ok")
                   THEN /\ ReturnMinusOne
                        /\ hist' = Failed("chdir_root")
                        /\ UNCHANGED << fdtab, glob >>
                   ELSE /\ fdtab' = FdClose(fdtab, glob.root_fd)
                        /\ glob' = [glob EXCEPT !.root_fd = -1]
                        /\ pc' = After("chroot", glob', loc)
                        /\ hist' = [Step("chroot") EXCEPT
                                      !.failed = IF res = "ok" THEN @ ELSE "chdir_root"]
                        /\ UNCHANGED status
    /\ UNCHANGED << pid_to_enter, namespace_files, namespace_target_pid, loc, relay >>

\* wd_fd = open(wdns, O_RDONLY): the path is looked up in the mount namespace
\* and under the root the process has now
OpenWdns ==
    /\ pc = "wdns"
    /\ \E ok \in BOOLEAN :
         IF ok
         THEN /\ fdtab' = FdOpen(fdtab, Obj("dir", loc.wdns, 0))
              /\ glob' = [glob EXCEPT !.wd_fd = LowestFree(fdtab)]
              /\ pc' = After("wdns", glob', loc)
              /\ hist' = [Step("wdns") EXCEPT !.wdns_ctx = proc.ns[CLONE_NEWNS],
                                               !.wdns_root = proc.root,
                                               !.wdns_nsetns = Len(hist.setns_log)]
              /\ UNCHANGED status
         ELSE /\ ReturnMinusOne
              /\ glob' = [glob EXCEPT !.wd_fd = -1]
              /\ hist' = Failed("open_wdns")
              /\ UNCHANGED fdtab
    /\ UNCHANGED << pid_to_enter, namespace_files, namespace_target_pid, loc, proc, relay >>

\* fchdir(wd_fd); close(wd_fd)
ChangeDir ==
    /\ pc = "chdir"
    /\ \E ok \in BOOLEAN :
         IF ok
         THEN /\ proc' = [proc EXCEPT !.cwd = fdtab[glob.wd_fd]]
              /\ fdtab' = FdClose(fdtab, glob.wd_fd)
              /\ glob' = [glob EXCEPT !.wd_fd = -1]
              /\ pc' = After("chdir", glob', loc)
              /\ hist' = Step("chdir")
              /\ UNCHANGED status
         ELSE /\ ReturnMinusOne
              /\ hist' = Failed("fchdir_wd")
              /\ UNCHANGED << fdtab, glob, proc >>
    /\ UNCHANGED << pid_to_enter, namespace_files, namespace_target_pid, loc, relay >>

\* "size_t size = 1024" of read_all_alloc
ReadAllocSize == 1024

\* records of /proc/<pid>/environ: eq tells whether the record holds '=',
\* len is its length in bytes without the terminating NUL
RecA1 == [eq |-> TRUE, name |-> "A", value |-> "1", len |-> 3]
RecA3 == [eq |-> TRUE, name |-> "A", value |-> "3", len |-> 3]
RecB2 == [eq |-> TRUE, name |-> "B", value |-> "2", len |-> 3]
\* "BAD"
RecBad == [eq |-> FALSE, name |-> "", value |-> "", len |-> 3]
\* "L=" followed by 998 bytes
RecLong == [eq |-> TRUE, name |-> "L", value |-> "long", len |-> 1000]

\* what the environment source holds in the runs of the whole walk
EnvDatasWalk == { << >>, << RecA1, RecB2 >> }
\* what it holds when the import is looked at closely
EnvDatas ==
    { << >>,
      << RecA1, RecB2, RecA3 >>,
      << RecA1, RecBad, RecB2 >>,
      << RecB2, RecLong >>,
      << RecLong, RecA1 >> }

\* what the bytes past the end of the buffer read as: zeros, a string
\* without '=', a string "G=g"
OobOutcomes == {"zeros", "junk", "var"}
RecGarbage == [eq |-> TRUE, name |-> "G", value |-> "g", len |-> 3]

\* bytes of the data, every record with its NUL
RECURSIVE EnvTotal(_)
EnvTotal(data) == IF data = << >> THEN 0 ELSE Head(data).len + 1 + EnvTotal(Tail(data))

\* read_all_alloc: the buffer is doubled each time it is full (c == size)
RECURSIVE read_all_alloc_size(_, _)
read_all_alloc_size(size, c) == IF c < size THEN size ELSE read_all_alloc_size(size * 2, c)

\* env_list_add_from_string(ls, str): an empty string leaves ls, a string
\* without '=' returns NULL, otherwise env_list_add puts the pair in front
env_list_add_from_string(ls, rec) ==
    IF rec.len = 0 THEN ls
    ELSE IF ~rec.eq THEN << >>
    ELSE << [name |-> rec.name, value |-> rec.value] >> \o ls

\* the turns of "while (rc > 0)" in which p points at record k of the data:
\* ls = env_list_add_from_string(ls, p); p += strlen(p) + 1;
\* rc -= strlen(p) + 1, the last strlen being that of the NEXT string (the
\* terminating NUL at buf[rc] when k is the last record)
RECURSIVE ParseRecords(_, _)
ParseRecords(data, st) ==
    IF st.rc <= 0 \/ st.k > Len(data) THEN st
    ELSE LET rec == data[st.k]
             p == st.p + rec.len + 1
             nextlen == IF st.k < Len(data) THEN data[st.k + 1].len ELSE 0
         IN  ParseRecords(data,
                 [st EXCEPT !.ls = env_list_add_from_string(st.ls, rec),
                            !.visits = Append(st.visits, st.k),
                            !.k = st.k + 1,
                            !.p = p,
                            !.rc = st.rc - (nextlen + 1),
                            !.maxread = p + nextlen])

\* the turns after the last record: p walks one byte at a time over the
\* zeroed rest of the buffer (read_all's memset) while rc > 0; the read at
\* offset size is outside the buffer, what it and the bytes after it hold is
\* oob.  A string found there is passed to env_list_add_from_string when rc
\* is still positive after its length has been subtracted.
ParseRest(st, size, oob) ==
    LET total == st.p
        tozero == size - total      \* the turn whose strlen reads buf[size]
    IN  IF st.rc <= 0 THEN [st EXCEPT !.oob = FALSE]
        ELSE IF st.rc < tozero
        THEN [st EXCEPT !.p = total + st.rc, !.rc = 0, !.maxread = total + st.rc,
                        !.oob = FALSE]
        ELSE LET left == st.rc - (tozero - 1) - (RecGarbage.len + 1)
                 seen == oob # "zeros" /\ left > 0
             IN  [st EXCEPT !.oob = TRUE,
                            !.maxread = size,
                            !.rc = 0,
                            !.ls = IF ~seen THEN @
                                   ELSE IF oob = "junk"
                                   THEN env_list_add_from_string(@, RecBad)
                                   ELSE env_list_add_from_string(@, RecGarbage)]

\* env_list_from_fd after a successful read_all_alloc of the data
env_list_from_fd(data, oob) ==
    LET rc == EnvTotal(data)
        size == read_all_alloc_size(ReadAllocSize, rc)
        st0 == [k |-> 1, p |-> 0, rc |-> rc, ls |-> << >>, visits |-> << >>,
                maxread |-> 0, oob |-> FALSE]
    IN  IF rc < 1 THEN [st0 EXCEPT !.k = 0] @@ [size |-> size]
        ELSE ParseRest(ParseRecords(data, st0), size, oob) @@ [size |-> size]

\* setenv(name, value, overwrite) on the pairs set so far
setenv(set, name, value, overwrite) ==
    IF \E e \in set : e.name = name
    THEN IF overwrite # 0
         THEN {e \in set : e.name # name} \cup {[name |-> name, value |-> value]}
         ELSE set
    ELSE set \cup {[name |-> name, value |-> value]}

\* env_list_setenv(ls, overwrite): from the head of the list
RECURSIVE env_list_setenv(_, _, _)
env_list_setenv(ls, overwrite, set) ==
    IF ls = << >> THEN set
    ELSE env_list_setenv(Tail(ls), overwrite,
                         setenv(set, Head(ls).name, Head(ls).value, overwrite))

\* lines 1387-1398: env_list_from_fd; "if (!ls && errno) return -1";
\* clearenv; env_list_setenv(ls, 0); close(env_fd).  datas is what the source
\* may hold; errno is 0 when the data was read, also when the list is empty
ImportEnvFrom(datas) ==
    /\ pc = "env"
    /\ \E res \in {"no_read", "no_setenv", "ok"}, data \in datas, oob \in OobOutcomes :
         LET r == env_list_from_fd(data, oob)
         IN  /\ ~r.oob => oob = "zeros"
             /\ CASE res = "no_read" ->
                       /\ data = << >> /\ oob = "zeros"
                       /\ ReturnMinusOne
                       /\ hist' = Failed("read_env")
                       /\ UNCHANGED << fdtab, proc >>
                  [] res = "no_setenv" ->
                       \E failat \in 1..Len(r.ls) :
                         /\ ReturnMinusOne
                         /\ proc' = [proc EXCEPT !.environ =
                                       [own |-> FALSE,
                                        vars |-> env_list_setenv(SubSeq(r.ls, 1, failat - 1),
                                                                 0, {})]]
                         /\ hist' = Failed("setenv")
                         /\ UNCHANGED fdtab
                  [] res = "ok" ->
                       /\ proc' = [proc EXCEPT !.environ =
                                     [own |-> FALSE, vars |-> env_list_setenv(r.ls, 0, {})]]
                       /\ fdtab' = FdClose(fdtab, glob.env_fd)
                       /\ pc' = After("env", glob, loc)
                       /\ hist' = [Step("env") EXCEPT
                                     !.env = [data |-> data, size |-> r.size, oob |-> r.oob,
                                              visits |-> r.visits, maxread |-> r.maxread,
                                              ls |-> r.ls]]
                       /\ UNCHANGED status
    /\ UNCHANGED << pid_to_enter, namespace_files, namespace_target_pid, glob, loc, relay >>

ImportEnv == ImportEnvFrom(EnvDatasWalk)

\* pids getpid() returns in the explored runs
Pids == {7, 42}

\* snprintf(buf, sizeof(buf), "%zu", (size_t)pid): the decimal digits, most
\* significant first
RECURSIVE Decimal(_)
Decimal(n) == IF n < 10 THEN << n >> ELSE Append(Decimal(n \div 10), n % 10)

\* variant: the buf pointer is not moved after a partial write
write_advance_stuck(off, tmp) == off

\* "buf = (const void *)((const char *)buf + tmp)"
write_advance(off, tmp) == off + tmp

\* "else if (errno != EINTR && errno != EAGAIN) return -1" lets these through
write_retryable(errno) == errno \in {"EINTR", "EAGAIN"}

\* join_into_cgroup up to the call of write_all: pid = getpid();
\* len = snprintf(buf, ...); write_all(cgroup_procs_fd, buf, len)
JoinCgroup ==
    /\ pc = "join_cgroup"
    /\ loc.wr.count = 0
    /\ \E pid \in Pids :
         /\ loc' = [loc EXCEPT !.wr = [wr_init EXCEPT !.buf = Decimal(pid),
                                                      !.count = Len(Decimal(pid))]]
         /\ hist' = [hist EXCEPT !.getpid = pid]
    /\ UNCHANGED << pc, status, pid_to_enter, namespace_files, namespace_target_pid,
                    glob, fdtab, proc, relay >>

\* one turn of "while (count)" in write_all: res is what write(2) did, tmp the
\* number of bytes it took; leaving the loop returns 0 to join_into_cgroup
WriteAll ==
    /\ pc = "join_cgroup"
    /\ loc.wr.count > 0
    /\ \E res \in {"bytes", "EINTR", "EAGAIN", "EIO"}, tmp \in 0..loc.wr.count :
         LET w == loc.wr
             count == w.count - tmp
         IN  /\ (res = "bytes") = (tmp > 0)
             /\ write_retryable(res) => w.tries < MaxWriteRetries
             /\ IF tmp > 0
                THEN /\ proc' = [proc EXCEPT
                                   !.cgroup_procs = @ \o SubSeq(w.buf, w.off + 1, w.off + tmp),
                                   !.cgroup = IF count = 0 THEN "target" ELSE @]
                     /\ IF count # 0
                        THEN /\ loc' = [loc EXCEPT !.wr.count = count,
                                                   !.wr.off = write_advance(w.off, tmp),
                                                   !.wr.errno = ""]
                             /\ UNCHANGED << pc, status, hist >>
                        ELSE /\ loc' = [loc EXCEPT !.wr = wr_init]
                             /\ pc' = After("join_cgroup", glob, loc)
                             /\ hist' = Step("join_cgroup")
                             /\ UNCHANGED status
                ELSE IF write_retryable(res)
                THEN /\ loc' = [loc EXCEPT !.wr.errno = res, !.wr.tries = @ + 1]
                     /\ UNCHANGED << pc, status, proc, hist >>
                ELSE /\ loc' = [loc EXCEPT !.wr.errno = res]
                     /\ Exit(EXIT_FAILURE)
                     /\ hist' = Failed("write_cgroup")
                     /\ UNCHANGED proc
    /\ UNCHANGED << pid_to_enter, namespace_files, namespace_target_pid, glob,
                    fdtab, relay >>

(* ---------------------------------------------------------------------- *)
(* Credentials, relay fork, capabilities, exec                             *)
(* ---------------------------------------------------------------------- *)

\* what an uninitialised struct stat may hold
GarbageIds == {4242}

\* lines 1404-1417: "if (fstat(uid_gid_fd, &st) > 0) return -1": fstat returns
\* 0 or -1, so the branch is never taken; after a failed fstat st is not written
FollowUidGid ==
    /\ pc = "uid_gid"
    /\ \E ok \in BOOLEAN, st_uid \in OwnerIds \cup GarbageIds, st_gid \in OwnerIds \cup GarbageIds :
         /\ ok => st_uid \in OwnerIds /\ st_gid \in OwnerIds
         /\ ~loc.do_uid => st_uid = 0
         /\ ~loc.do_gid => st_gid = 0
         /\ loc' = [loc EXCEPT !.uid = IF loc.do_uid THEN st_uid ELSE @,
                               !.gid = IF loc.do_gid THEN st_gid ELSE @]
         /\ hist' = [Step("uid_gid") EXCEPT !.stat_ok = ok]
    /\ fdtab' = FdClose(fdtab, glob.uid_gid_fd)
    /\ glob' = [glob EXCEPT !.uid_gid_fd = -1]
    /\ pc' = After("uid_gid", glob', loc')
    /\ UNCHANGED << status, pid_to_enter, namespace_files, namespace_target_pid,
                    proc, relay >>

\* the process that walks do_nsenter is not stopped and has not been killed
\* (after the fork that process is the child)
ChildRuns == relay.child \in {"none", "running"}

\* the child has terminated: it left do_nsenter, or the command it exec'ed
\* ended, or a signal killed it
ChildTerminated == relay.child \in {"exited", "signaled"} \/ (relay.child # "none" /\ pc = "exited")

\* the wait status waitpid stores for a terminated child
WaitStatus(kind, v) == [kind |-> kind, v |-> v]
ChildWaitStatus ==
    IF relay.child = "signaled" THEN WaitStatus("signaled", relay.cstatus)
    ELSE IF relay.child = "exited" THEN WaitStatus("exited", relay.cstatus)
    ELSE WaitStatus("exited", status)

\* exit codes of the exec'ed command, signals that kill the child
CommandCodes == {0, 3}
ChildSignals == {9}
\* what the bits of "int status" read as when waitpid did not write them
UninitStatus ==
    {WaitStatus("exited", 0), WaitStatus("exited", 3), WaitStatus("signaled", 9),
     WaitStatus("other", 0)}

\* variant: SIGCONT to the child first, SIGSTOP to itself second
relay_signal_swapped(k) ==
    IF k = 1 THEN [to |-> "child", sig |-> SIGCONT] ELSE [to |-> "self", sig |-> SIGSTOP]

\* the two kill() calls made for a stop of the child, in order
relay_signal(k) ==
    IF k = 1 THEN [to |-> "self", sig |-> SIGSTOP] ELSE [to |-> "child", sig |-> SIGCONT]

\* variant: a child that did not exit normally makes continue_as_child return
leave_loop_returns(r, ws, dies) ==
    IF ws.kind = "exited"
    THEN [r EXCEPT !.state = "exited", !.status = ws.v]
    ELSE [r EXCEPT !.state = "returned"]

\* after the loop: exit(WEXITSTATUS), or kill(getpid(), WTERMSIG) and, when
\* that signal does not end the parent, exit(EXIT_FAILURE)
leave_loop(r, ws, dies) ==
    IF ws.kind = "exited"
    THEN [r EXCEPT !.state = "exited", !.status = ws.v]
    ELSE IF ws.kind = "signaled"
    THEN [r EXCEPT !.sent = Append(@, [to |-> "self", sig |-> ws.v]),
                   !.state = IF dies THEN "killed" ELSE "exited",
                   !.status = IF dies THEN -1 ELSE EXIT_FAILURE]
    ELSE [r EXCEPT !.state = "exited", !.status = EXIT_FAILURE]

\* continue_as_child: fork(); the child returns and goes on, the parent stays
\* in the wait loop.  From here on the walk follows the child.
ContinueAsChild ==
    /\ pc = "fork"
    /\ \E ok \in BOOLEAN :
         IF ok
         THEN /\ relay' = [relay EXCEPT !.state = "waiting", !.child = "running",
                                         !.creds = [uid |-> proc.uid, gid |-> proc.gid,
                                                    ambient |-> proc.ambient]]
              /\ proc' = [proc EXCEPT !.forked = TRUE,
                                      !.ns[CLONE_NEWPID] = proc.pid_for_children]
              /\ pc' = After("fork", glob, loc)
              /\ hist' = Step("fork")
              /\ UNCHANGED status
         ELSE /\ Exit(EXIT_FAILURE)
              /\ hist' = Failed("fork")
              /\ UNCHANGED << relay, proc >>
    /\ UNCHANGED << pid_to_enter, namespace_files, namespace_target_pid, glob, loc, fdtab >>

WalkUnchanged ==
    UNCHANGED << pc, status, pid_to_enter, namespace_files, namespace_target_pid,
                 glob, loc, fdtab, proc, hist >>

\* a job-control signal stops the child (before or after its exec)
ChildStops ==
    /\ relay.state \in {"waiting", "stopped"}
    /\ relay.child = "running" /\ pc # "exited"
    /\ relay.nstops < MaxStops
    /\ relay' = [relay EXCEPT !.child = "stopped", !.unreported = TRUE,
                               !.nstops = @ + 1]
    /\ WalkUnchanged

\* a signal kills the child (before or after its exec)
ChildKilled ==
    /\ relay.state \in {"waiting", "stopped"}
    /\ relay.child \in {"running", "stopped"} /\ pc # "exited"
    /\ \E sig \in ChildSignals :
         relay' = [relay EXCEPT !.child = "signaled", !.cstatus = sig,
                                !.unreported = FALSE]
    /\ WalkUnchanged

\* the command the child exec'ed ends
CommandEnds ==
    /\ relay.state \in {"waiting", "stopped"}
    /\ relay.child = "running" /\ pc = "execd"
    /\ \E code \in CommandCodes :
         relay' = [relay EXCEPT !.child = "exited", !.cstatus = code]
    /\ WalkUnchanged

\* one turn of the parent's loop: ret = waitpid(child, &status, WUNTRACED);
\* on a stop kill(getpid(), SIGSTOP), otherwise break and the code after the loop
RelayWaitpid ==
    /\ relay.state = "waiting"
    /\ \E res \in {"stopped", "terminated", "failed"}, dies \in BOOLEAN :
         CASE res = "stopped" ->
                /\ relay.unreported /\ dies
                /\ relay' = [relay EXCEPT !.unreported = FALSE,
                                           !.observed = @ + 1,
                                           !.sent = Append(@, relay_signal(1)),
                                           !.state = "stopped"]
           [] res = "terminated" ->
                /\ ChildTerminated
                /\ ChildWaitStatus.kind = "signaled" \/ dies
                /\ relay' = leave_loop([relay EXCEPT !.child_done = TRUE],
                                       ChildWaitStatus, dies)
           [] res = "failed" ->
                \E ws \in UninitStatus :
                    /\ ws.kind = "signaled" \/ dies
                    /\ relay' = leave_loop([relay EXCEPT !.waitfail = TRUE,
                                                         !.child_done = ChildTerminated],
                                           ws, dies)
    /\ WalkUnchanged

\* the parent, resumed after its own SIGSTOP: kill(child, SIGCONT), then the
\* loop calls waitpid again
RelayContinue ==
    /\ relay.state = "stopped"
    /\ relay' = [relay EXCEPT !.sent = Append(@, relay_signal(2)),
                               !.child = IF @ = "stopped" THEN "running" ELSE @,
                               !.state = "waiting"]
    /\ WalkUnchanged

\* variant: setgroups_nerrs is not consulted
setgroups_fatal_alone(ok, setgroups_nerrs) == ~ok

\* the second setgroups is fatal when it fails and the first one failed too
setgroups_fatal(ok, setgroups_nerrs) == ~ok /\ setgroups_nerrs # 0

\* lines 1422-1429: setgroups(0, NULL), setgid(gid), setuid(uid)
ChangeCredentials ==
    /\ pc = "cred"
    /\ ChildRuns
    /\ \E ok_groups \in BOOLEAN, ok_gid \in BOOLEAN, ok_uid \in BOOLEAN :
         LET fail_groups == loc.force_gid /\ setgroups_fatal(ok_groups, loc.setgroups_nerrs)
             fail_gid == ~fail_groups /\ loc.force_gid /\ ~ok_gid
             fail_uid == ~fail_groups /\ ~fail_gid /\ loc.force_uid /\ ~ok_uid
             did_gid == loc.force_gid /\ ~fail_groups /\ ok_gid
             did_uid == loc.force_uid /\ ~fail_groups /\ ~fail_gid /\ ok_uid
             calls == (IF loc.force_gid THEN << "setgroups" >> ELSE << >>) \o
                      (IF loc.force_gid /\ ~fail_groups THEN << "setgid" >> ELSE << >>) \o
                      (IF loc.force_uid /\ ~fail_groups /\ ~fail_gid
                       THEN << "setuid" >> ELSE << >>)
         IN  \* results of calls that are not made are not chosen
             /\ ~loc.force_gid => ok_groups /\ ok_gid
             /\ fail_groups => ok_gid /\ ok_uid
             /\ (fail_gid \/ ~loc.force_uid) => ok_uid
             /\ proc' = [proc EXCEPT
                           !.groups_dropped = @ \/ (loc.force_gid /\ ok_groups),
                           !.gid = IF did_gid THEN loc.gid ELSE @,
                           !.uid = IF did_uid THEN loc.uid ELSE @]
             /\ hist' = [hist EXCEPT
                           !.steps = @ \o calls,
                           !.setgroups_log = IF loc.force_gid THEN Append(@, ok_groups) ELSE @,
                           !.cred_fail = IF fail_groups THEN "setgroups"
                                         ELSE IF fail_gid THEN "setgid"
                                         ELSE IF fail_uid THEN "setuid" ELSE ""]
             /\ IF fail_groups \/ fail_gid \/ fail_uid
                THEN ReturnMinusOne
                ELSE pc' = After("cred", glob, loc) /\ UNCHANGED status
    /\ UNCHANGED << pid_to_enter, namespace_files, namespace_target_pid, glob, loc,
                    fdtab, relay >>

\* what capget reports in the explored runs (effective is within permitted);
\* 40 is the highest capability the kernel knows, 41 lies above it
CapPayloads ==
    { [permitted |-> {}, effective |-> {}],
      [permitted |-> {0, 40}, effective |-> {40}],
      [permitted |-> {0, 40, 41}, effective |-> {0, 40, 41}] }
\* values cap_last_cap() returns
CapLastValues == {40}

\* variant: the last valid capability itself is skipped (cap >= last)
RaiseList_skips_last(effective, last) ==
    {cap \in 0..(CapBits - 1) : ~(cap >= last) /\ cap \in effective}

\* the capabilities the loop of cap_permitted_to_ambient raises
RaiseList(effective, last) ==
    {cap \in 0..(CapBits - 1) : ~(cap > last) /\ cap \in effective}

\* cap_permitted_to_ambient; failat is the capability whose
\* prctl(PR_CAP_AMBIENT_RAISE) fails, -1 when none does
CapPermittedToAmbient ==
    /\ pc = "caps"
    /\ ChildRuns
    /\ \E payload \in CapPayloads, last \in CapLastValues,
          res \in {"no_capget", "no_capset", "loop"} :
       \E failat \in RaiseList(payload.effective, last) \cup {-1} :
         LET p0 == [proc EXCEPT !.permitted = payload.permitted,
                                !.effective = payload.effective,
                                !.cap_last = last]
             raised == {c \in RaiseList(payload.effective, last) : failat = -1 \/ c < failat}
         IN  CASE res = "no_capget" ->
                    /\ payload.permitted = {} /\ failat = -1
                    /\ Exit(EXIT_FAILURE)
                    /\ hist' = [hist EXCEPT !.caps_failed = TRUE]
                    /\ UNCHANGED proc
               [] res = "no_capset" ->
                    /\ failat = -1
                    /\ Exit(EXIT_FAILURE)
                    /\ proc' = p0
                    /\ hist' = [hist EXCEPT !.caps_failed = TRUE]
               [] res = "loop" ->
                    /\ proc' = [p0 EXCEPT !.inheritable = payload.permitted,
                                          !.ambient = @ \cup raised]
                    /\ IF failat = -1
                       THEN /\ pc' = After("caps", glob, loc)
                            /\ hist' = [Step("caps") EXCEPT !.caps_raised = TRUE]
                            /\ UNCHANGED status
                       ELSE /\ Exit(EXIT_FAILURE)
                            /\ hist' = [hist EXCEPT !.caps_failed = TRUE]
    /\ UNCHANGED << pid_to_enter, namespace_files, namespace_target_pid, glob, loc,
                    fdtab, relay >>

\* if (optind < argc) execvp(...); LOG_ERROR; return -1
Exec ==
    /\ pc = "exec"
    /\ ChildRuns
    /\ \E has_cmd \in BOOLEAN, ok \in BOOLEAN :
         /\ ~has_cmd => ~ok
         /\ IF ok
            THEN /\ pc' = "execd"
                 /\ hist' = [Step("exec") EXCEPT !.exec = TRUE]
                 /\ UNCHANGED status
            ELSE /\ ReturnMinusOne
                 /\ UNCHANGED hist
    /\ UNCHANGED << pid_to_enter, namespace_files, namespace_target_pid, glob, loc,
                    fdtab, proc, relay >>

(* ---------------------------------------------------------------------- *)
(* Specification                                                           *)
(* ---------------------------------------------------------------------- *)

Next ==
    \/ Prologue
    \/ OptAll
    \/ OptTarget
    \/ OptNamespace
    \/ OptNamespacePath
    \/ OptNetSocket
    \/ OptSetuid
    \/ OptSetgid
    \/ OptFlag
    \/ OptRoot
    \/ OptWd
    \/ OptWdns
    \/ OptHelp
    \/ OptUnrecognized
    \/ EndOfOptions
    \/ EnableAll
    \/ Resolve
    \/ OpenRefs
    \/ OpenCgroup
    \/ OpenParentUserNs
    \/ OpenSkNetns
    \/ FinalSet
    \/ EnterNamespaces
    \/ Setns
    \/ EndPass
    \/ SaveCwd
    \/ ChangeRoot
    \/ OpenWdns
    \/ ChangeDir
    \/ ImportEnv
    \/ JoinCgroup
    \/ WriteAll
    \/ FollowUidGid
    \/ ContinueAsChild
    \/ ChangeCredentials
    \/ CapPermittedToAmbient
    \/ Exec

Spec == Init /\ [][Next]_vars

(* ---------------------------------------------------------------------- *)
(* The relay: parent and child of continue_as_child side by side           *)
(* ---------------------------------------------------------------------- *)

\* the runs followed with both processes: up to the fork no optional step is
\* requested (no --all, directory, environment, cgroup, socket or parent
\* option) and no call fails; from the fork on nothing is left out
PlainUntilFork ==
    \/ relay.child # "none"
    \/ /\ pc # "exited"
       /\ SetnsFailures = 0
       /\ glob = glob_init
       /\ ~loc.do_all /\ ~loc.do_user_parent /\ ~loc.do_join_cgroup /\ ~loc.do_env
       /\ ~loc.do_uid /\ ~loc.do_gid /\ loc.wdns = "" /\ loc.sock_fd = -1
       /\ \A n \in 1..Sentinel :
             namespace_files[n].enabled =>
                 namespace_files[n].nstype \in {CLONE_NEWUSER, CLONE_NEWNS, CLONE_NEWPID}

RelayNext ==
    \/ Prologue /\ PlainUntilFork'
    \/ OptTarget /\ PlainUntilFork'
    \/ OptNamespace /\ PlainUntilFork'
    \/ OptNamespacePath /\ PlainUntilFork'
    \/ OptSetuid /\ PlainUntilFork'
    \/ OptSetgid /\ PlainUntilFork'
    \/ OptFlag /\ PlainUntilFork'
    \/ EndOfOptions /\ PlainUntilFork'
    \/ Resolve /\ PlainUntilFork'
    \/ FinalSet /\ PlainUntilFork'
    \/ EnterNamespaces /\ PlainUntilFork'
    \/ Setns /\ PlainUntilFork'
    \/ EndPass /\ PlainUntilFork'
    \/ ContinueAsChild /\ PlainUntilFork'
    \/ ChangeCredentials /\ PlainUntilFork'
    \/ CapPermittedToAmbient /\ PlainUntilFork'
    \/ Exec /\ PlainUntilFork'
    \/ ChildStops
    \/ ChildKilled
    \/ CommandEnds
    \/ RelayWaitpid
    \/ RelayContinue

RelaySpec == Init /\ [][RelayNext]_vars

(* ---------------------------------------------------------------------- *)
(* --user-parent with a target given by -t                                 *)
(* ---------------------------------------------------------------------- *)

\* -t <pid> as the first option, with a pid strtoul_or_err accepts
OptTargetFirst ==
    /\ pc = "getopt"
    /\ hist.nopts = 0 /\ namespace_target_pid = 0
    /\ \E p \in TargetPids : namespace_target_pid' = p
    /\ UNCHANGED << pc, status, pid_to_enter, namespace_files, glob, loc, fdtab, proc,
                    relay, hist >>

\* the command lines followed here: a target, namespace options, -F,
\* --preserve-credentials and --user-parent
NamespaceOptionsOnly ==
    /\ ~loc.do_all /\ ~loc.do_join_cgroup /\ ~loc.do_env /\ ~loc.do_rd /\ ~loc.do_wd
    /\ ~loc.do_uid /\ ~loc.do_gid /\ loc.wdns = "" /\ loc.sock_fd = -1 /\ loc.keepcaps = 0

ParentNext ==
    \/ Prologue
    \/ OptTargetFirst
    \/ OptNamespace
    \/ OptNamespacePath
    \/ OptFlag /\ NamespaceOptionsOnly'
    \/ EndOfOptions
    \/ Resolve
    \/ OpenParentUserNs
    \/ FinalSet
    \/ EnterNamespaces
    \/ Setns
    \/ EndPass
    \/ ContinueAsChild
    \/ ChangeCredentials
    \/ Exec

ParentSpec == Init /\ [][ParentNext]_vars

\* do_nsenter called by a process whose standard input is open, or was closed
\* by whoever started it (yawl ... <&-): descriptor 0 is then free
InitAnyStdin ==
    /\ pc = "start"
    /\ status = -1
    /\ pid_to_enter \in EnterPids
    /\ namespace_files = namespace_files_init
    /\ namespace_target_pid = 0
    /\ glob = glob_init
    /\ loc = loc_init
    /\ fdtab \in {[n \in 0..2 |-> Stdio(n)], [n \in 1..2 |-> Stdio(n)]}
    /\ proc = proc_init
    /\ relay = relay_init
    /\ hist = hist_init

StdinSpec == InitAnyStdin /\ [][ParentNext]_vars

\* every option, from a start with standard input open or closed
StdinWalkSpec == InitAnyStdin /\ [][Next]_vars

(* ---------------------------------------------------------------------- *)
(* cap_last_cap() when /proc/sys/kernel/cap_last_cap is unavailable         *)
(* ---------------------------------------------------------------------- *)

RECURSIVE Pow2(_)
Pow2(n) == IF n = 0 THEN 1 ELSE 2 * Pow2(n - 1)
INT_MAX == Pow2(IntWidth - 1) - 1
\* a value stored in an unsigned int
ToUnsigned(x) == x % Pow2(IntWidth)
\* (int)x for an unsigned int x
ToInt(x) == IF x > INT_MAX THEN x - Pow2(IntWidth) ELSE x

\* test_cap: prctl(PR_CAPBSET_READ, cap) >= 0, true up to the kernel's last
\* capability
test_cap(cap, valid_last) == cap <= valid_last

\* variant: the sum is taken in int and wraps at INT_MAX
cap_midpoint_in_int(cap0, cap1) == ((cap0 + cap1) % Pow2(IntWidth - 1)) \div 2

\* "cap = (cap0 + cap1) / 2U": the sum in unsigned int
cap_midpoint(cap0, cap1) == ToUnsigned(cap0 + cap1) \div 2

\* cap_last_cap() is called in cap_permitted_to_ambient, the counter cannot
\* be read (cap_last_by_procfs < 0), and cap_last_by_bsearch starts:
\* cap = INT_MAX; cap0 = 0, cap1 = INT_MAX.  Capability 0 is valid.
BsearchInit ==
    /\ pc = "caps"
    /\ status = -1
    /\ pid_to_enter \in EnterPids
    /\ namespace_files = namespace_files_init
    /\ namespace_target_pid = 0
    /\ glob = glob_init
    /\ loc = [loc_init EXCEPT !.keepcaps = 1,
                              !.bsearch = [cap |-> INT_MAX, cap0 |-> 0, cap1 |-> INT_MAX,
                                           turns |-> 0]]
    /\ fdtab = [n \in 0..2 |-> Stdio(n)]
    /\ \E valid_last \in 0..INT_MAX : proc = [proc_init EXCEPT !.cap_valid_last = valid_last]
    /\ relay = relay_init
    /\ hist = hist_init

\* one turn of "while ((int)cap0 < cap)"
CapBsearchTurn ==
    /\ pc = "caps" /\ proc.cap_last = -1
    /\ LET b == loc.bsearch
           cap0 == IF test_cap(b.cap, proc.cap_valid_last) THEN b.cap ELSE b.cap0
           cap1 == IF test_cap(b.cap, proc.cap_valid_last) THEN b.cap1 ELSE b.cap
       IN  /\ ToInt(b.cap0) < b.cap
           /\ loc' = [loc EXCEPT !.bsearch = [cap |-> cap_midpoint(cap0, cap1),
                                              cap0 |-> cap0, cap1 |-> cap1,
                                              turns |-> b.turns + 1]]
    /\ UNCHANGED << pc, status, pid_to_enter, namespace_files, namespace_target_pid,
                    glob, fdtab, proc, relay, hist >>

\* the loop is left: "*ret = cap; return 0;" and cap_last_cap keeps the value
CapBsearchReturn ==
    /\ pc = "caps" /\ proc.cap_last = -1
    /\ ~(ToInt(loc.bsearch.cap0) < loc.bsearch.cap)
    /\ proc' = [proc EXCEPT !.cap_last = loc.bsearch.cap]
    /\ UNCHANGED << pc, status, pid_to_enter, namespace_files, namespace_target_pid,
                    glob, loc, fdtab, relay, hist >>

BsearchNext == CapBsearchTurn \/ CapBsearchReturn

BsearchSpec == BsearchInit /\ [][BsearchNext]_vars

(* ---------------------------------------------------------------------- *)
(* The environment import looked at closely                                *)
(* ---------------------------------------------------------------------- *)

\* the import with every environment source of EnvDatas
ImportEnvAll == ImportEnvFrom(EnvDatas)

\* the runs followed here: namespace toggles and -e, nothing else that opens
\* a file or changes a directory
EnvironmentOnly ==
    /\ ~loc.do_all /\ ~loc.do_join_cgroup /\ ~loc.do_rd /\ ~loc.do_wd
    /\ ~loc.do_uid /\ ~loc.do_gid /\ loc.wdns = "" /\ loc.sock_fd = -1 /\ loc.keepcaps = 0
    /\ ~loc.do_user_parent

EnvNext ==
    \/ Prologue
    \/ OptTargetFirst
    \/ OptNamespace
    \/ OptFlag /\ EnvironmentOnly'
    \/ EndOfOptions
    \/ Resolve
    \/ OpenRefs
    \/ FinalSet
    \/ EnterNamespaces
    \/ Setns
    \/ EndPass
    \/ ImportEnvAll
    \/ ContinueAsChild
    \/ ChangeCredentials
    \/ Exec

EnvSpec == Init /\ [][EnvNext]_vars

(* ---------------------------------------------------------------------- *)
(* Vocabulary of the properties                                            *)
(* ---------------------------------------------------------------------- *)

Bits(mask) == {k \in AllKinds : HasBit(mask, k)}
Log == hist.setns_log
Steps == {hist.steps[i] : i \in 1..Len(hist.steps)}
EntryOf(k) == CHOOSE i \in 1..(Sentinel - 1) : namespace_files_init[i].nstype = k
\* some setns on a descriptor of kind k succeeded
Entered(k) == \E i \in 1..Len(Log) : Log[i].ok /\ Log[i].nstype = k
FailedInPass(p) == {i \in 1..Len(Log) : Log[i].pass = p /\ ~Log[i].ok}
ExitedNonZero == pc = "exited" /\ status # 0 /\ status # -1 /\ ~hist.exec

\* /proc/<target_pid>/<ns/K>
TargetNs(k) == Obj("proc", namespace_files_init[EntryOf(k)].name, namespace_target_pid)

\* the kinds enabled against the target pid: opened by open_namespaces and not
\* replaced by the --user-parent or -N derivation
EnabledAgainstTarget ==
    hist.resolved \ ((IF loc.do_user_parent THEN {CLONE_NEWUSER} ELSE {}) \cup
                     (IF loc.sock_fd >= 0 THEN {CLONE_NEWNET} ELSE {}))

(* ---------------------------------------------------------------------- *)
(* C1                                                                      *)
(* ---------------------------------------------------------------------- *)

\* C1 (as claimed): in every run that reaches exec, for every kind K enabled
\* against the target pid, the process performing exec is a member of the
\* namespace /proc/<target_pid>/ns/K referred to when it was opened.
C1_MemberOfEveryTargetNs ==
    pc = "execd" =>
        \A k \in EnabledAgainstTarget : proc.ns[k] = TargetNs(k)

\* C1 (amended): the same for every kind but PID; for PID the target's
\* namespace is the one the process's children are created in, and the
\* exec'ing process is itself a member when the relay fork was performed.
C1_MemberExceptPidWithoutFork ==
    pc = "execd" =>
        \A k \in EnabledAgainstTarget :
            IF k = CLONE_NEWPID
            THEN /\ proc.pid_for_children = TargetNs(k)
                 /\ proc.forked => proc.ns[k] = TargetNs(k)
            ELSE proc.ns[k] = TargetNs(k)

C1_Witness ==
    /\ pc = "execd"
    /\ {CLONE_NEWPID, CLONE_NEWNS, CLONE_NEWUSER} \subseteq EnabledAgainstTarget
    /\ proc.forked
    /\ proc.ns[CLONE_NEWPID] = TargetNs(CLONE_NEWPID)
    /\ proc.ns[CLONE_NEWNS] = TargetNs(CLONE_NEWNS)

(* ---------------------------------------------------------------------- *)
(* C2                                                                      *)
(* ---------------------------------------------------------------------- *)

\* C2: no setns on the user-namespace entry is attempted during the first,
\* error-tolerant pass, whatever the set of enabled namespaces is.
C2_NoUserSetnsInFirstPass ==
    \A i \in 1..Len(Log) : Log[i].pass = 1 => ~HasBit(Log[i].nstype, CLONE_NEWUSER)

(* ---------------------------------------------------------------------- *)
(* C3                                                                      *)
(* ---------------------------------------------------------------------- *)

\* C3: a setns failure in the first pass does not end the process and the
\* second pass still runs; a setns failure in the second pass ends the process
\* at once with a non-zero status and exec is never reached.
C3_FirstPassTolerantSecondFatal ==
    /\ \A i \in FailedInPass(1) :
         /\ i = Len(Log) => pc \in {"enter1", "enter2"} /\ status = -1
         /\ "enter1" \in Steps => pc = "enter2" \/ \E j \in 1..Len(Log) : Log[j].pass = 2
    /\ \A i \in FailedInPass(2) : i = Len(Log) /\ ExitedNonZero

C3_Witness ==
    /\ FailedInPass(1) # {}
    /\ \E j \in 1..Len(Log) : Log[j].pass = 2 /\ Log[j].ok
    /\ pc = "execd"

(* ---------------------------------------------------------------------- *)
(* C4                                                                      *)
(* ---------------------------------------------------------------------- *)

\* every entry that was enabled when resolution finished has been consumed
\* by a successful setns
AllConsumed ==
    \A k \in Bits(hist.enabled_at_entry) :
        /\ Entered(k)
        /\ ~namespace_files[EntryOf(k)].enabled
        /\ namespace_files[EntryOf(k)].fd = -1

C5_TableInvariant ==
    \A n \in 1..Sentinel :
        LET e == namespace_files[n]
        IN  /\ ~e.enabled => e.fd = -1
            /\ e.fd = -1 \/ (e.fd >= 0 /\ e.fd \in DOMAIN fdtab)
            /\ \A m \in 1..Sentinel : m # n /\ e.fd >= 0 => namespace_files[m].fd # e.fd

C5_Witness ==
    /\ "user_parent" \in Steps
    /\ \E i \in 1..Len(Log) : Log[i].ok
    /\ \E n \in 1..Sentinel : namespace_files[n].enabled /\ namespace_files[n].fd >= 0

(* ---------------------------------------------------------------------- *)
(* C6                                                                      *)
(* ---------------------------------------------------------------------- *)

\* the step is a setns call on an entry's descriptor
SetnsCall == Len(hist'.setns_log) = Len(Log) + 1 /\ hist'.setns_log[Len(Log) + 1].fd >= 0

SetnsFrame ==
    LET c == hist'.setns_log[Len(Log) + 1]
        n == EntryOf(c.nstype)
    IN  /\ c.fd = namespace_files[n].fd
        /\ c.ok => /\ namespace_files'[n].fd = -1
                   /\ ~namespace_files'[n].enabled
                   /\ c.fd \in DOMAIN fdtab /\ c.fd \notin DOMAIN fdtab'
                   /\ \A m \in 1..Sentinel : m # n => namespace_files'[m] = namespace_files[m]
                   /\ \A f \in DOMAIN fdtab : f # c.fd => f \in DOMAIN fdtab' /\ fdtab'[f] = fdtab[f]
        /\ (~c.ok /\ c.pass = 1) =>
                   /\ namespace_files' = namespace_files
                   /\ fdtab' = fdtab
        \* the second pass retries the descriptor the first pass failed on
        /\ c.pass = 2 =>
             \A i \in FailedInPass(1) :
                 Log[i].nstype = c.nstype => Log[i].fd = c.fd /\ Log[i].obj = c.obj

\* C6: a successful setns closes that entry's descriptor, clears its enabled
\* flag and changes no other entry; a failed setns in the first pass leaves the
\* entry as it was, and the second pass retries the same descriptor.
C6_SetnsFrame == [][SetnsCall => SetnsFrame]_vars

C6_Witness ==
    \E i \in FailedInPass(1) :
        \E j \in 1..Len(Log) :
            /\ Log[j].pass = 2 /\ Log[j].ok
            /\ Log[j].nstype = Log[i].nstype /\ Log[j].fd = Log[i].fd

(* ---------------------------------------------------------------------- *)
(* C7                                                                      *)
(* ---------------------------------------------------------------------- *)

ResolutionSteps == {"all", "resolve", "open_refs", "open_cgroup", "user_parent",
                    "sk_netns", "final_set"}
DirEnvCgroupSteps == {"save_cwd", "chroot", "wdns", "chdir", "env", "join_cgroup"}
CredentialSteps == {"setgroups", "setgid", "setuid"}

\* the steps taken are in non-decreasing order of rank; rank 0: not ordered
Ordered(Rank(_)) ==
    \A i, j \in 1..Len(hist.steps) :
        (i < j /\ Rank(hist.steps[i]) # 0 /\ Rank(hist.steps[j]) # 0)
            => Rank(hist.steps[i]) <= Rank(hist.steps[j])

ClaimedRank(s) ==
    IF s \in ResolutionSteps THEN 1
    ELSE IF s = "enter1" THEN 2
    ELSE IF s = "enter2" THEN 3
    ELSE IF s \in CredentialSteps \cup {"caps"} THEN 4
    ELSE IF s \in DirEnvCgroupSteps THEN 5
    ELSE IF s = "fork" THEN 6
    ELSE IF s = "exec" THEN 7
    ELSE 0

CodeRank(s) ==
    IF s \in ResolutionSteps THEN 1
    ELSE IF s = "enter1" THEN 2
    ELSE IF s = "enter2" THEN 3
    ELSE IF s \in DirEnvCgroupSteps THEN 4
    ELSE IF s = "fork" THEN 5
    ELSE IF s \in CredentialSteps THEN 6
    ELSE IF s = "caps" THEN 7
    ELSE IF s = "exec" THEN 8
    ELSE 0

C8_CapsIffUserEntered ==
    hist.exec => (hist.caps_raised <=> (loc.keepcaps # 0 /\ Entered(CLONE_NEWUSER)))

(* ---------------------------------------------------------------------- *)
(* C9                                                                      *)
(* ---------------------------------------------------------------------- *)

\* C9: once capability propagation has returned, every capability of the
\* effective mask that is not above the highest valid capability is in the
\* ambient set and in the inheritable set; a failing capget, capset or ambient
\* raise ends the process with a non-zero status and exec is not reached.
C9_EffectiveIsAmbient ==
    /\ hist.caps_raised =>
         \A c \in proc.effective :
             c <= proc.cap_last => c \in proc.ambient /\ c \in proc.inheritable
    /\ hist.caps_failed => ExitedNonZero

C9_Witness ==
    /\ hist.caps_raised
    /\ hist.exec
    /\ 0 \in proc.ambient /\ 40 \in proc.ambient
    /\ 41 \in proc.effective /\ 41 \notin proc.ambient

(* ---------------------------------------------------------------------- *)
(* C10                                                                     *)
(* ---------------------------------------------------------------------- *)

Groups == hist.setgroups_log

\* C10: when the user namespace is enabled and preserve_credentials is not
\* requested, setgroups(0, NULL) is attempted once before any setns and once
\* after namespace entry; the run fails on setgroups exactly when both
\* attempts fail, and then exec is not reached; one failure alone does not
\* fail the run.
C10_SetgroupsBothFail ==
    /\ (loc.preserve_cred = 0 /\ \E i \in 1..Len(Log) : Log[i].nstype = CLONE_NEWUSER)
           => Len(Groups) >= 1
    /\ (HasBit(hist.enabled_at_entry, CLONE_NEWUSER) /\ loc.preserve_cred = 0) =>
           /\ Len(Groups) \in {1, 2}
           /\ Len(Groups) = 1 => pc \notin {"caps", "exec", "execd"}
           /\ Len(Groups) = 2 =>
                /\ {"enter1", "enter2"} \cap Steps # {}
                /\ pc \notin {"enter1", "enter2"}
                /\ hist.cred_fail = "setgroups" <=> (~Groups[1] /\ ~Groups[2])
                /\ (~Groups[1] /\ ~Groups[2]) => pc = "exited" /\ status # 0 /\ ~hist.exec

C10_Witness ==
    /\ hist.exec
    /\ Groups = << FALSE, TRUE >>
    /\ Entered(CLONE_NEWUSER)

(* ---------------------------------------------------------------------- *)
(* C11                                                                     *)
(* ---------------------------------------------------------------------- *)

\* C11: a process of the run, the one that walks do_nsenter or the relay
\* parent, ends with exit status 0 only if the final exec was performed.
C11_ZeroOnlyAfterExec ==
    /\ (pc = "exited" /\ status = 0) => hist.exec
    /\ (relay.state = "exited" /\ relay.status = 0) => hist.exec

(* ---------------------------------------------------------------------- *)
(* C12                                                                     *)
(* ---------------------------------------------------------------------- *)

Scanned == "all" \in Steps

\* C12: whenever --all is given and the target's user namespace is the
\* caller's current one, the user namespace is not in the enabled set when
\* namespace entry starts (runs with --user-parent, which installs another
\* user namespace, set aside).
C12_AllLeavesOutOwnUserNs ==
    (Scanned /\ hist.scan.tid = MyUserNs /\ ~loc.do_user_parent /\ hist.enabled_at_entry # 0)
        => ~HasBit(hist.enabled_at_entry, CLONE_NEWUSER)

(* ---------------------------------------------------------------------- *)
(* C13                                                                     *)
(* ---------------------------------------------------------------------- *)

\* C13: when the --all scan has finished and the run goes on, every
\* candidate whose own path did not exist was left disabled, and no other
\* error occurred on a checked path (any other error ends the process).
C13_ScanEnoentSilentOtherFatal ==
    Scanned =>
        /\ \A k \in hist.scan.missing :
               ~HasBit(hist.scan.before, k) => ~HasBit(hist.scan.after, k)
        /\ (~HasBit(hist.scan.before, CLONE_NEWUSER) /\ hist.scan.rc = "ENOENT")
               => ~HasBit(hist.scan.after, CLONE_NEWUSER)
        /\ ~HasBit(hist.scan.before, CLONE_NEWUSER) => hist.scan.rc # "EACCES"

(* ---------------------------------------------------------------------- *)
(* C14                                                                     *)
(* ---------------------------------------------------------------------- *)

\* C14: when the --all scan checks the user namespace (both stats
\* succeeding), it leaves it disabled exactly when the target's user
\* namespace has the device and inode of the caller's current one.
C14_RejectsSameDevAndIno ==
    (Scanned /\ hist.scan.asked /\ hist.scan.rc = "ok") =>
        (~HasBit(hist.scan.after, CLONE_NEWUSER) <=> hist.scan.tid = MyUserNs)

(* ---------------------------------------------------------------------- *)
(* C15                                                                     *)
(* ---------------------------------------------------------------------- *)

\* the parent of the user namespace of the target process
ParentOfTargetUserNs == OwnerOf(Obj("proc", "ns/user", namespace_target_pid))

\* C15: with --user-parent (no namespace given by an explicit file), whatever
\* other namespaces are enabled, the descriptor installed in the User entry
\* refers to the parent of the target process's user namespace, and that is
\* the user namespace the process is in at exec.
C15_UserParentIsParentOfTargetUserNs ==
    ("user_parent" \in Steps /\ hist.parent_ref.obj.kind = "proc") =>
        /\ OwnerOf(hist.parent_ref.obj) = ParentOfTargetUserNs
        /\ hist.exec => proc.ns[CLONE_NEWUSER] = ParentOfTargetUserNs

(* ---------------------------------------------------------------------- *)
(* C16                                                                     *)
(* ---------------------------------------------------------------------- *)

\* -F is the only statement that sets do_fork to 0
NoForkGiven == loc.do_fork = 0
PidEnabledAtEntry == HasBit(hist.enabled_at_entry, CLONE_NEWPID)

\* C16: a relay fork is only performed when the PID namespace is in the
\* enabled set at the end of resolution and -F was not given; a run that
\* reaches exec has forked exactly in that case, and in every other run that
\* reaches exec the original process itself execs, no relay parent existing.
C16_ForkIffPidAndNotNoFork ==
    /\ ("fork" \in Steps \/ relay.state # "none" \/ proc.forked)
           => PidEnabledAtEntry /\ ~NoForkGiven
    /\ hist.exec =>
           /\ proc.forked <=> (PidEnabledAtEntry /\ ~NoForkGiven)
           /\ proc.forked <=> relay.state # "none"
           /\ proc.forked <=> "fork" \in Steps

C16_Witness ==
    /\ hist.exec
    /\ proc.forked /\ relay.state = "waiting"
    /\ PidEnabledAtEntry
    /\ hist.nopts = 1

(* ---------------------------------------------------------------------- *)
(* C17                                                                     *)
(* ---------------------------------------------------------------------- *)

RelayEnded == relay.state \in {"exited", "killed"}
LastSent == relay.sent[Len(relay.sent)]

\* C17: the relay parent has ended only if the child had finally terminated
\* when it left its loop; if the child exited with code c the parent exited
\* with c; if a signal s killed the child, the last thing the parent did
\* before ending was to send s to itself.
C17_ParentMirrorsTerminatedChild ==
    RelayEnded =>
        /\ relay.child_done
        /\ ChildWaitStatus.kind = "exited" =>
               relay.state = "exited" /\ relay.status = ChildWaitStatus.v
        /\ ChildWaitStatus.kind = "signaled" =>
               /\ relay.sent # << >>
               /\ LastSent = [to |-> "self", sig |-> ChildWaitStatus.v]

(* ---------------------------------------------------------------------- *)
(* C18                                                                     *)
(* ---------------------------------------------------------------------- *)

ToSelf(sig) == [to |-> "self", sig |-> sig]
ToChild(sig) == [to |-> "child", sig |-> sig]

\* C18: for each stop of the child the parent observes it sends SIGSTOP to
\* itself and then SIGCONT to the child, once each and in that order, before
\* it waits again; it sends the child nothing else.
C18_StopThenContPerObservedStop ==
    LET sent == relay.sent
    IN  /\ \A i \in 1..Len(sent) :
               sent[i].to = "child" =>
                   /\ sent[i] = ToChild(SIGCONT)
                   /\ i > 1 /\ sent[i - 1] = ToSelf(SIGSTOP)
        /\ \A i \in 1..(Len(sent) - 1) :
               sent[i] = ToSelf(SIGSTOP) => sent[i + 1] = ToChild(SIGCONT)
        /\ relay.state = "waiting" => Len(sent) = 2 * relay.observed
        /\ relay.state = "stopped" =>
               /\ Len(sent) = 2 * relay.observed - 1
               /\ sent[Len(sent)] = ToSelf(SIGSTOP)
        /\ Cardinality({i \in 1..Len(sent) : sent[i].to = "child"}) \in
               {relay.observed, relay.observed - 1}

C18_Witness ==
    /\ relay.observed = 2
    /\ relay.state = "waiting"
    /\ relay.sent = << ToSelf(SIGSTOP), ToChild(SIGCONT), ToSelf(SIGSTOP), ToChild(SIGCONT) >>

(* ---------------------------------------------------------------------- *)
(* C19                                                                     *)
(* ---------------------------------------------------------------------- *)

\* C19: once the relay fork has happened the process that goes on with the
\* credential change, the capability propagation and exec is the child; the
\* parent is in its wait loop or has ended, it never goes on past
\* continue_as_child, and its uid, gid and ambient set are the ones the
\* original process started with.
C19_OnlyChildContinues ==
    relay.state # "none" =>
        /\ relay.state \in {"waiting", "stopped", "exited", "killed"}
        /\ proc.forked
        /\ relay.creds = [uid |-> proc_init.uid, gid |-> proc_init.gid,
                          ambient |-> proc_init.ambient]
        /\ \A i \in 1..Len(hist.steps) :
               hist.steps[i] \in CredentialSteps \cup {"caps", "exec"} =>
                   \E j \in 1..(i - 1) : hist.steps[j] = "fork"

C19_Witness ==
    /\ hist.exec /\ proc.forked
    /\ "setuid" \in Steps /\ proc.uid # proc_init.uid
    /\ relay.state = "stopped"
    /\ relay.child = "stopped"

(* ---------------------------------------------------------------------- *)
(* C20                                                                     *)
(* ---------------------------------------------------------------------- *)

\* descriptors open on /proc/<pid>/cgroup or on a cgroup.procs file
CgroupFds ==
    {f \in DOMAIN fdtab : \/ fdtab[f].kind = "cgroup.procs"
                          \/ (fdtab[f].kind = "proc" /\ fdtab[f].ref = "cgroup")}
NoCgroupProcs ==
    /\ glob.cgroup_procs_fd = -1
    /\ \A f \in DOMAIN fdtab : fdtab[f].kind # "cgroup.procs"
    /\ proc.cgroup = "own"
    /\ "join_cgroup" \notin Steps /\ "open_cgroup" \notin Steps

\* C20: when join_cgroup is requested and the cgroup mount is found not to be
\* cgroup v2, the run has failed without any setns, cgroup.procs was neither
\* opened nor written and exec is not reached; when join_cgroup is not
\* requested no cgroup file is opened or written.
C20_CgroupV2Required ==
    /\ (loc.do_join_cgroup /\ hist.cgroup2 = "no") =>
           /\ ExitedNonZero
           /\ Log = << >>
           /\ NoCgroupProcs
    /\ ~loc.do_join_cgroup =>
           /\ hist.cgroup2 = ""
           /\ CgroupFds = {}
           /\ NoCgroupProcs

C20_Witness ==
    /\ loc.do_join_cgroup /\ hist.cgroup2 = "no"
    /\ pc = "exited"
    /\ "resolve" \in Steps

(* ---------------------------------------------------------------------- *)
(* C21                                                                     *)
(* ---------------------------------------------------------------------- *)

\* the number a sequence of decimal digits denotes
RECURSIVE FromDecimal(_)
FromDecimal(ds) ==
    IF ds = << >> THEN 0 ELSE FromDecimal(SubSeq(ds, 1, Len(ds) - 1)) * 10 + ds[Len(ds)]

IsPrefix(a, b) == Len(a) <= Len(b) /\ a = SubSeq(b, 1, Len(a))

\* C21: whatever write(2) returns, the bytes cgroup.procs has received are at
\* every moment a prefix of the decimal digits of the caller's pid; the join
\* is reported done only when they are exactly those digits; a write error
\* other than EINTR and EAGAIN ends the process at once with EXIT_FAILURE,
\* the join not done and exec not reached.
C21_WriteAllExact ==
    /\ hist.getpid = 0 => proc.cgroup_procs = << >>
    /\ hist.getpid # 0 =>
          /\ IsPrefix(proc.cgroup_procs, Decimal(hist.getpid))
          /\ "join_cgroup" \in Steps =>
                /\ proc.cgroup_procs # << >>
                /\ proc.cgroup_procs[1] # 0
                /\ FromDecimal(proc.cgroup_procs) = hist.getpid
          /\ (pc = "join_cgroup" /\ loc.wr.count > 0) =>
                /\ Len(proc.cgroup_procs) + loc.wr.count = Len(loc.wr.buf)
                /\ "join_cgroup" \notin Steps
    /\ loc.wr.errno \notin {"", "EINTR", "EAGAIN"} =>
          /\ pc = "exited" /\ status = EXIT_FAILURE
          /\ ~hist.exec /\ "join_cgroup" \notin Steps

\* a partial write followed by a retryable error, the loop still running
C21_Witness ==
    /\ pc = "join_cgroup"
    /\ loc.wr.off > 0 /\ loc.wr.count > 0
    /\ loc.wr.errno = "EAGAIN"
    /\ proc.cgroup_procs = << 4 >>

(* ---------------------------------------------------------------------- *)
(* C22                                                                     *)
(* ---------------------------------------------------------------------- *)

\* position of the first occurrence of a step, 0 when it did not happen
StepAt(name) ==
    IF name \in Steps
    THEN CHOOSE i \in 1..Len(hist.steps) :
            hist.steps[i] = name /\ \A j \in 1..(i - 1) : hist.steps[j] # name
    ELSE 0

\* neither -w (with or without a file) nor -W was given
NoWorkingDirOption == loc.excl_st = ""

\* C22: when the root has been switched and no working-directory option was
\* given, the current directory was opened before the switch; when such a
\* run reaches exec the working directory was set back after the switch and
\* is the directory that was current before it, not the new root.
C22_CwdRestoredAfterRootSwitch ==
    ("chroot" \in Steps /\ NoWorkingDirOption) =>
        /\ "save_cwd" \in Steps
        /\ StepAt("save_cwd") < StepAt("chroot")
        /\ hist.exec =>
              /\ StepAt("chroot") < StepAt("chdir")
              /\ proc.cwd = hist.cwd_saved
              /\ proc.cwd # proc.root

C22_Witness ==
    /\ hist.exec
    /\ "chroot" \in Steps /\ NoWorkingDirOption
    /\ proc.root # proc_init.root
    /\ proc.cwd = hist.cwd_saved

(* ---------------------------------------------------------------------- *)
(* C23                                                                     *)
(* ---------------------------------------------------------------------- *)

\* C23: once the -W path has been opened, both passes (and the root switch,
\* when there is one) lie before the open and no setns is made after it; at
\* exec the working directory is that path, looked up in the mount namespace
\* and under the root the process execs in.
C23_WdnsOpenedAfterEntry ==
    "wdns" \in Steps =>
        /\ 0 < StepAt("enter1") /\ StepAt("enter1") < StepAt("wdns")
        /\ StepAt("enter2") < StepAt("wdns")
        /\ StepAt("chroot") < StepAt("wdns")
        /\ Len(Log) = hist.wdns_nsetns
        /\ hist.exec =>
              /\ proc.cwd = Obj("dir", loc.wdns, 0)
              /\ hist.wdns_ctx = proc.ns[CLONE_NEWNS]
              /\ hist.wdns_root = proc.root

\* -W with a root switch and a mount namespace entered before the open
C23_Witness ==
    /\ hist.exec
    /\ {"enter1", "chroot", "wdns"} \subseteq Steps
    /\ hist.wdns_nsetns > 0
    /\ proc.ns[CLONE_NEWNS] # proc_init.ns[CLONE_NEWNS]
    /\ proc.cwd = Obj("dir", loc.wdns, 0)

(* ---------------------------------------------------------------------- *)
(* C24                                                                     *)
(* ---------------------------------------------------------------------- *)

Records(data) == {data[i] : i \in 1..Len(data)}
WellFormed(data) == data # << >> /\ \A r \in Records(data) : r.eq /\ r.len > 0
\* the import has been done and do_nsenter went on
Imported == "env" \in Steps

\* C24: after an import that went through, from data made of name=value
\* records only, every name of the data is in the environment with the value
\* of one of its records, and nothing of the caller's previous environment
\* is left.
C24_ImportSetsEveryRecord ==
    (Imported /\ WellFormed(hist.env.data)) =>
        /\ ~proc.environ.own
        /\ \A r \in Records(hist.env.data) :
              \E e \in proc.environ.vars :
                  /\ e.name = r.name
                  /\ \E q \in Records(hist.env.data) : q.name = e.name /\ q.value = e.value

(* ---------------------------------------------------------------------- *)
(* C25                                                                     *)
(* ---------------------------------------------------------------------- *)

\* C25: when the data holds a record without '=' and the parser stayed
\* inside its buffer, a run that reaches exec has every name=value record
\* of the data, before and after the malformed one, in its environment.
C25_MalformedRecordAloneSkipped ==
    (hist.exec /\ Imported /\ ~hist.env.oob /\ \E r \in Records(hist.env.data) : ~r.eq) =>
        \A r \in Records(hist.env.data) :
            r.eq => \E e \in proc.environ.vars : e.name = r.name

(* ---------------------------------------------------------------------- *)
(* C26                                                                     *)
(* ---------------------------------------------------------------------- *)

\* the calls after the second pass that the claim lists
PostEntryCalls ==
    {"open_cwd", "fchdir_root", "chroot", "chdir_root", "open_wdns", "fchdir_wd",
     "read_env", "setenv", "write_cgroup", "fork"}

\* C26: once one of the calls after the second pass has failed (opening the
\* current directory, fchdir to the root, chroot, chdir to /, opening the -W
\* directory, fchdir to the working directory, reading the environment
\* source, setenv, the write to cgroup.procs, fork, setgid, setuid), the
\* process has ended with a non-zero status and exec has not been reached;
\* when that process is the child of the relay fork, the parent does not end
\* with status 0 either.
C26_PostEntryFailureIsFatal ==
    (hist.failed \in PostEntryCalls \/ hist.cred_fail \in {"setgid", "setuid"}) =>
        /\ pc = "exited"
        /\ status # EXIT_SUCCESS
        /\ ~hist.exec
        /\ relay.state = "exited" => relay.status # EXIT_SUCCESS

\* chdir("/") failed after a chroot that followed two passes with a setns
C26_Witness ==
    /\ hist.failed = "chdir_root"
    /\ "enter1" \in Steps
    /\ \E i \in 1..Len(Log) : Log[i].ok
    /\ proc.root # proc_init.root
    /\ pc = "exited"

(* ---------------------------------------------------------------------- *)
(* C27                                                                     *)
(* ---------------------------------------------------------------------- *)

\* C27: in follow mode the ids given to setuid/setgid are owner ids that
\* fstat reported on the reference descriptor, opened before the first
\* setns; once that fstat has failed the process has ended with a non-zero
\* status without any setgid, setuid or exec.
C27_FollowReadsOwnerOrFails ==
    /\ "uid_gid" \in Steps =>
          /\ StepAt("open_refs") # 0
          /\ StepAt("open_refs") < StepAt("enter1")
          /\ (hist.stat_ok /\ loc.do_uid) => loc.uid \in OwnerIds
          /\ (hist.stat_ok /\ loc.do_gid) => loc.gid \in OwnerIds
          /\ (loc.do_uid /\ "setuid" \in Steps /\ hist.cred_fail = "")
                => proc.uid = loc.uid
          /\ (loc.do_gid /\ "setgid" \in Steps /\ hist.cred_fail \in {"", "setuid"})
                => proc.gid = loc.gid
    /\ ~hist.stat_ok =>
          /\ pc = "exited" /\ status # EXIT_SUCCESS
          /\ ~hist.exec
          /\ {"setgid", "setuid"} \cap Steps = {}

(* ---------------------------------------------------------------------- *)
(* C28                                                                     *)
(* ---------------------------------------------------------------------- *)

\* masks the iteration is tried with: none, a bit no entry has, the kind of
\* the first, of a middle and of the last entry, two kinds, three kinds
IterMasks ==
    {0, 1, CLONE_NEWUSER, CLONE_NEWNET, CLONE_NEWTIME, CLONE_NEWUSER + CLONE_NEWNS,
     CLONE_NEWCGROUP + CLONE_NEWPID + CLONE_NEWTIME}

\* the indexes from i on, in table order, of the entries in the set keep
RECURSIVE EntriesFrom(_, _)
EntriesFrom(i, keep) ==
    IF i >= Sentinel THEN << >>
    ELSE (IF i \in keep THEN << i >> ELSE << >>) \o EntriesFrom(i + 1, keep)

\* control is at a statement that walks the table: the prologue's
\* enable_namespace, the --all scan, open_namespaces, get_namespaces, a call
\* of enter_namespaces
WalksTable ==
    \/ pc \in {"start", "all", "resolve", "final_set"}
    \/ pc \in {"enter1", "enter2"} /\ loc.pass = 0

\* C28 as claimed: the iteration yields the entries whose kind is in the
\* mask and whose enabled flag equals the filter.
C28_ClaimedSelection ==
    WalksTable => \A mask \in IterMasks, enabled \in BOOLEAN :
        Iterate(namespace_files, mask, enabled) =
            EntriesFrom(1, {i \in 1..(Sentinel - 1) :
                               /\ HasBit(mask, namespace_files[i].nstype)
                               /\ namespace_files[i].enabled = enabled})

\* C28: wherever the table is walked, for every mask and both filter values
\* the iteration over the table as it then is yields, in table
\* order, the entries whose kind is in the mask (every kind when the mask is
\* 0) and that are enabled when the filter is set (every entry when it is
\* not); it never yields the sentinel, continued from any entry it yields
\* the next one of the same sequence, and from the sentinel it yields nothing.
C28_IterationSelects ==
    WalksTable => \A mask \in IterMasks, enabled \in BOOLEAN :
        LET sel == {i \in 1..(Sentinel - 1) :
                      /\ mask = 0 \/ HasBit(mask, namespace_files[i].nstype)
                      /\ ~enabled \/ namespace_files[i].enabled}
        IN  /\ Iterate(namespace_files, mask, enabled) = EntriesFrom(1, sel)
            /\ \A i \in sel :
                  next_nsfile_impl(namespace_files, i, mask, enabled) =
                      IF \E j \in sel : j > i
                      THEN CHOOSE j \in sel : j > i /\ \A h \in sel : h > i => j <= h
                      ELSE NULL
            /\ next_nsfile_impl(namespace_files, Sentinel, mask, enabled) = NULL

\* the second call of enter_namespaces, with two entries still enabled
C28_Witness ==
    /\ pc = "enter2" /\ WalksTable
    /\ Len(Iterate(namespace_files, 0, FALSE)) = Sentinel - 1
    /\ Len(Iterate(namespace_files, 0, TRUE)) = 2
    /\ Iterate(namespace_files, CLONE_NEWNS, TRUE) # << >>
    /\ Iterate(namespace_files, CLONE_NEWNET, TRUE) = << >>
    /\ Len(Iterate(namespace_files, CLONE_NEWNET, FALSE)) = 1

(* ---------------------------------------------------------------------- *)
(* C29                                                                     *)
(* ---------------------------------------------------------------------- *)

DefaultKinds == {CLONE_NEWUSER, CLONE_NEWNS}

\* do_nsenter was called with pid_to_enter > 1 and getopt_long found no option
DefaultEnterRun == pid_to_enter > 1 /\ hist.nopts = 0 /\ pc # "start"

\* C29: in a run with pid_to_enter > 1 and no option, the target pid is
\* pid_to_enter; once resolution is done exactly the user and mount
\* namespaces are enabled, both opened from /proc/<pid_to_enter>/ns; only
\* these two kinds are ever passed to setns; preserve_cred is set and no
\* setgroups, setgid or setuid call is made; no fork occurs; and exec happens
\* only with the process a member of the target's user and mount namespaces
\* and of its own namespaces of every other kind.
C29_DefaultEnterMode ==
    DefaultEnterRun =>
        /\ namespace_target_pid = pid_to_enter
        /\ loc.preserve_cred = 1
        /\ "final_set" \in Steps =>
              /\ Bits(hist.enabled_at_entry) = DefaultKinds
              /\ hist.resolved = DefaultKinds
        /\ \A i \in 1..Len(Log) : Log[i].nstype \in DefaultKinds
        /\ Steps \cap CredentialSteps = {}
        /\ hist.setgroups_log = << >>
        /\ proc.uid = proc_init.uid /\ proc.gid = proc_init.gid
        /\ ~proc.groups_dropped
        /\ ~proc.forked /\ relay = relay_init /\ "fork" \notin Steps
        /\ hist.exec =>
              \A k \in AllKinds :
                  proc.ns[k] = IF k \in DefaultKinds THEN TargetNs(k) ELSE SelfNs(k)

\* the default run has exec'ed the program
C29_Witness ==
    /\ DefaultEnterRun
    /\ pc = "execd" /\ hist.exec
    /\ Entered(CLONE_NEWUSER) /\ Entered(CLONE_NEWNS)
    /\ proc.ns[CLONE_NEWUSER] = Obj("proc", "ns/user", pid_to_enter)

(* ---------------------------------------------------------------------- *)
(* C30                                                                     *)
(* ---------------------------------------------------------------------- *)

\* -S / -G was among the options: each sets uid/gid to a non-zero number or
\* sets do_uid/do_gid
GivenSetuid == loc.do_uid \/ loc.uid # loc_init.uid
GivenSetgid == loc.do_gid \/ loc.gid # loc_init.gid

ValidDecimal(str) == str # << >> /\ \A i \in 1..Len(str) : str[i] \in 0..9

\* C31: a -S/-G argument ends the run with a parse error only when it is not
\* a valid decimal number; an accepted argument's value is what uid/gid is
\* set to, and what setuid/setgid then installs.
C31_ExplicitIdAccepted ==
    /\ hist.rejected # << >> => ~ValidDecimal(hist.rejected)
    /\ hist.accepted # << >> =>
          /\ ValidDecimal(hist.accepted)
          /\ (loc.force_uid /\ ~loc.do_uid /\ loc.uid # loc_init.uid)
                => loc.uid = DigitsValue(hist.accepted)
          /\ (loc.force_gid /\ ~loc.do_gid /\ loc.gid # loc_init.gid)
                => loc.gid = DigitsValue(hist.accepted)

(* ---------------------------------------------------------------------- *)
(* C32                                                                     *)
(* ---------------------------------------------------------------------- *)

\* the setns calls of the second pass, as positions in the log
SecondPass == {i \in 1..Len(Log) : Log[i].pass = 2}

\* C32: in the second pass no setns on the user namespace comes after a
\* setns on another kind, and when the user entry was enabled when entry
\* started, every second-pass setns on another kind comes after a
\* successful setns on the user namespace.
C32_UserFirstInSecondPass ==
    \A i \in SecondPass :
        Log[i].nstype # CLONE_NEWUSER =>
            /\ \A j \in SecondPass : Log[j].nstype = CLONE_NEWUSER => j < i
            /\ HasBit(hist.enabled_at_entry, CLONE_NEWUSER) =>
                  \E j \in SecondPass :
                      j < i /\ Log[j].nstype = CLONE_NEWUSER /\ Log[j].ok

\* the second pass entered the user namespace and then a namespace the first
\* pass had failed on
C32_Witness ==
    \E i, j, h \in 1..Len(Log) :
        /\ Log[h].pass = 1 /\ ~Log[h].ok
        /\ Log[j].pass = 2 /\ Log[j].nstype = CLONE_NEWUSER /\ Log[j].ok
        /\ Log[i].pass = 2 /\ Log[i].nstype = Log[h].nstype /\ Log[i].ok
        /\ h < j /\ j < i

(* ---------------------------------------------------------------------- *)
(* C33                                                                     *)
(* ---------------------------------------------------------------------- *)

\* open_parent_user_ns_fd returned
ParentDerived == pc = "user_parent" /\ pc' # "user_parent" /\ pc' # "exited"

\* C33: when open_parent_user_ns_fd returns, the User entry is enabled and
\* holds an open descriptor of the namespace the ioctl answered with; the
\* reference descriptor is closed if it was opened for the derivation; a
\* reference borrowed from another entry is still open, on the same object,
\* and that entry is unchanged; the descriptor the User entry held before is
\* closed; every other descriptor is as it was.
C33_ParentDerivationDescriptors ==
    [][ParentDerived =>
        LET u == EntryOf(CLONE_NEWUSER)
            old == namespace_files[u].fd
            new == namespace_files'[u].fd
            ref == hist'.parent_ref
        IN  /\ namespace_files'[u].enabled
            /\ new \in DOMAIN fdtab' /\ new \notin DOMAIN fdtab
            /\ fdtab'[new] = OwnerOf(ref.obj)
            /\ ref.islocal => ref.fd \notin DOMAIN fdtab'
            /\ (~ref.islocal /\ ref.fd # old) =>
                  /\ ref.fd \in DOMAIN fdtab' /\ fdtab'[ref.fd] = fdtab[ref.fd]
                  /\ \E i \in 1..(Sentinel - 1) :
                        i # u /\ namespace_files[i].enabled /\ namespace_files[i].fd = ref.fd
            /\ \A i \in 1..(Sentinel - 1) : i # u => namespace_files'[i] = namespace_files[i]
            /\ old >= 0 => old \notin DOMAIN fdtab'
            /\ \A n \in DOMAIN fdtab : n # old => (n \in DOMAIN fdtab' /\ fdtab'[n] = fdtab[n])
    ]_vars

(* ---------------------------------------------------------------------- *)
(* C34                                                                     *)
(* ---------------------------------------------------------------------- *)

EnabledEntries == {i \in 1..(Sentinel - 1) : namespace_files[i].enabled}

\* what a descriptor of entry i may refer to: the namespace file it was
\* opened from, or the namespace an ioctl derived for it
NsNames == {namespace_files_init[i].name : i \in 1..(Sentinel - 1)}
NamespaceObject(obj) ==
    \/ obj.kind = "proc" /\ obj.ref \in NsNames
    \/ obj.kind \in {"path", "userns_of_proc", "userns_of_path", "netns_of_socket"}

\* C34: pid_fd stays -1; while enter_namespaces runs every enabled entry
\* holds an open descriptor of a namespace; every setns call names one kind
\* and is made on such a descriptor, never on pid_fd.
C34_SetnsOnEntryDescriptors ==
    /\ loc.pid_fd = loc_init.pid_fd
    /\ pc \in {"enter1", "enter2"} =>
          \A i \in EnabledEntries :
              /\ namespace_files[i].fd >= 0
              /\ namespace_files[i].fd \in DOMAIN fdtab
              /\ NamespaceObject(fdtab[namespace_files[i].fd])
    /\ \A i \in 1..Len(Log) :
          /\ Log[i].nstype \in AllKinds
          /\ Log[i].fd >= 0 /\ Log[i].fd # loc.pid_fd
          /\ NamespaceObject(Log[i].obj)

\* both passes have made setns calls on entries' descriptors
C34_Witness ==
    /\ \E i, j \in 1..Len(Log) : Log[i].pass = 1 /\ Log[j].pass = 2 /\ Log[j].ok
    /\ hist.exec

(* ---------------------------------------------------------------------- *)
(* C35                                                                     *)
(* ---------------------------------------------------------------------- *)

StdDescriptors == DOMAIN [n \in 0..2 |-> Stdio(n)]

\* C35: descriptors 0, 1 and 2 are never closed or replaced: at every point
\* of a run, and so at exec, each is the one the process started with.
C35_StandardDescriptorsKept ==
    \A n \in StdDescriptors : n \in DOMAIN fdtab /\ fdtab[n] = Stdio(n)

(* ---------------------------------------------------------------------- *)
(* C36                                                                     *)
(* ---------------------------------------------------------------------- *)

\* C36: when the program is exec'ed no descriptor is open but the ones the
\* process started with.
C36_NothingInherited ==
    hist.exec => DOMAIN fdtab = StdDescriptors

\* C36 without the descriptors of the cgroup join: in a run that did not ask
\* for it, nothing the run opened is open at exec
C36_NothingInheritedWithoutJoin ==
    (hist.exec /\ ~loc.do_join_cgroup) =>
        /\ DOMAIN fdtab = StdDescriptors
        /\ \A n \in StdDescriptors : fdtab[n] = Stdio(n)

(* ---------------------------------------------------------------------- *)
(* C37                                                                     *)
(* ---------------------------------------------------------------------- *)

\* pc once lines 1422-1429 are behind
PastCredentials == pc \in {"caps", "exec", "execd", "exited"}

\* the calls of lines 1422-1432 that were made, in the order setgroups,
\* setgid, setuid, capability propagation, after both passes and the join
CredentialRank(s) ==
    IF s \in {"enter1", "enter2", "join_cgroup"} THEN 1
    ELSE IF s = "setgroups" THEN 2
    ELSE IF s = "setgid" THEN 3
    ELSE IF s = "setuid" THEN 4
    ELSE IF s = "caps" THEN 5
    ELSE 0

\* setgroups calls made outside lines 1422-1429
EarlySetgroups ==
    Len(hist.setgroups_log) - Cardinality({i \in 1..Len(hist.steps) : hist.steps[i] = "setgroups"})

\* C37 as claimed: the supplementary groups are dropped, setgid, setuid and
\* the capabilities raised in this order, each of these calls after the last
\* setns and the cgroup join, with no setns and no cgroup write after them.
C37_CredentialsAfterEntry ==
    /\ Ordered(CredentialRank)
    /\ (Steps \cap CredentialSteps # {} \/ hist.setgroups_log # << >>) => PastCredentials

\* C37: setgroups, setgid, setuid and capability propagation of lines
\* 1422-1432 are made in this order, after the last setns and the cgroup
\* join, and no setns or cgroup write follows them; the one other setgroups
\* call is made when the set of namespaces is final, before the first setns,
\* and only when the user namespace is in the set and preserve_cred is 0.
C37_CredentialsAfterEntryButFirstSetgroups ==
    /\ IF PastCredentials
       THEN Ordered(CredentialRank)
       ELSE \A i \in 1..Len(hist.steps) : hist.steps[i] \notin CredentialSteps \cup {"caps"}
    /\ hist.setgroups_log # << >> =>
          /\ EarlySetgroups \in {0, 1}
          /\ EarlySetgroups = 1 =>
                /\ "final_set" \in Steps
                /\ HasBit(hist.enabled_at_entry, CLONE_NEWUSER) /\ loc.preserve_cred = 0
    /\ (pc = "enter1" /\ loc.pass = 0 /\ loc.preserve_cred = 0
          /\ HasBit(hist.enabled_at_entry, CLONE_NEWUSER))
         => EarlySetgroups = 1 /\ Log = << >>

\* groups dropped at line 1326, both passes made, then setgroups, setgid and
\* setuid, and exec
C37_Witness ==
    /\ hist.exec
    /\ EarlySetgroups = 1 /\ Len(hist.setgroups_log) = 2
    /\ CredentialSteps \subseteq Steps
    /\ \E i \in 1..Len(Log) : Log[i].pass = 2 /\ Log[i].ok

(* ---------------------------------------------------------------------- *)
(* C38                                                                     *)
(* ---------------------------------------------------------------------- *)

\* C38: when the environment has been imported, the highest offset the
\* parser read is at most that of the terminating NUL it put after the data,
\* nothing outside the buffer was read, and the records were passed to
\* env_list_add_from_string once each, in order.
C38_ParserStaysInData ==
    "env" \in Steps =>
        /\ hist.env.maxread <= EnvTotal(hist.env.data)
        /\ ~hist.env.oob
        /\ hist.env.visits = [i \in 1..Len(hist.env.data) |-> i]

\* the records themselves are visited once each, in order
C38_RecordsVisitedOnce ==
    "env" \in Steps => hist.env.visits = [i \in 1..Len(hist.env.data) |-> i]

(* ---------------------------------------------------------------------- *)
(* C39                                                                     *)
(* ---------------------------------------------------------------------- *)

\* C39: for every highest valid capability from 0 to INT_MAX the bisection
\* returns it; it makes at most as many turns as an int has bits; the sum
\* of cap0 and cap1 always fits an unsigned int; cap0 is valid and, once
\* moved, cap1 is not.
C39_BisectionFindsLast ==
    LET b == loc.bsearch
    IN  /\ proc.cap_last # -1 => proc.cap_last = proc.cap_valid_last
        /\ b.turns <= IntWidth
        /\ b.cap0 + b.cap1 < Pow2(IntWidth)
        /\ test_cap(b.cap0, proc.cap_valid_last)
        /\ b.cap1 # INT_MAX => ~test_cap(b.cap1, proc.cap_valid_last)
        /\ b.cap0 <= b.cap /\ b.cap <= b.cap1

\* the bisection has returned a capability strictly inside the range after
\* several turns
C39_Witness ==
    /\ proc.cap_last = proc.cap_valid_last
    /\ proc.cap_last > 0 /\ proc.cap_last < INT_MAX - 1
    /\ loc.bsearch.turns > 2

====
